---------------------------- MODULE Spec2Model ----------------------------
(***************************************************************************)
(* A model of the zkp-maze RISC Zero pipeline:                             *)
(*   - core/src/rng.rs            SimpleLCG (Park-Miller generator)        *)
(*   - core/src/maze_gen.rs       Maze::generate, the backtracker, the     *)
(*                                canonical grid encoder                   *)
(*   - methods/maze-gen           stage 1 guest (grid commitment)          *)
(*   - host/src/lib.rs            generate_maze_proof, verify_path_proof   *)
(*   - methods/path-verify        stage 2 guest and verify_maze_solution   *)
(*   - worker/container_src       the proving worker's prove_handler       *)
(*                                                                         *)
(* Eight specifications share the module's variables:                      *)
(*   SpecGen     Maze::generate, one loop iteration per step               *)
(*   SpecReplay  verify_maze_solution as a function of (grid, moves)       *)
(*   Spec        the path verification stage: verify_path_proof feeding    *)
(*               the path-verify guest                                     *)
(*   SpecGuest   the path-verify guest on input streams of any content     *)
(*   SpecRng     two SimpleLCG objects drawn from side by side             *)
(*   SpecTwice   verify_path_proof called twice on the same arguments      *)
(*   SpecChoices the backtracker with every choice of neighbour            *)
(*   SpecWorker  prove requests served side by side by the worker          *)
(***************************************************************************)
EXTENDS Integers, Sequences, FiniteSets, TLC

(***************************************************************************)
(* Sizes.  The source fixes MAZE_ROWS = MAZE_COLS = MAX_MAZE_ROWS =        *)
(* MAX_MAZE_COLS = 20 and MAX_MOVES = 500; the model keeps the names and   *)
(* scales the values so that every input of the scaled program can be      *)
(* enumerated.  They are bounds of the model.                              *)
(***************************************************************************)
\* core/src/maze_gen.rs:32 (20 in the source)
MAX_MAZE_ROWS == 3
\* core/src/maze_gen.rs:33 (20 in the source)
MAX_MAZE_COLS == 3
\* core/src/lib.rs:21 (20 in the source)
MAZE_ROWS == 2
\* core/src/lib.rs:22 (20 in the source)
MAZE_COLS == 2
\* core/src/lib.rs:28 (500 in the source).  As in the source, a walk from
\* the start to any cell of the grid fits into the buffer with room left.
MAX_MOVES == 6
\* move sequences of every content are enumerated up to this length
MaxLen == 5
\* the seeds s * SeedStride, s in 0..MaxSeed, are enumerated, next to the
\* seeds of SpecialSeeds
MaxSeed == 40
SeedStride == 30000001

\* core/src/maze_gen.rs:34
MAX_GRID_SIZE == MAX_MAZE_ROWS * 2 + 1
\* core/src/lib.rs:25
GRID_SIZE == MAZE_ROWS * 2 + 1
\* core/src/lib.rs:31
GRID_DATA_SIZE == GRID_SIZE * GRID_SIZE
\* core/src/maze_gen.rs:97: the stack array, "max 20x20 = 400 cells"
STACK_SLOTS == MAX_MAZE_ROWS * MAX_MAZE_COLS

\* core/src/maze_gen.rs:26-29
NORTH == 0
EAST == 1
SOUTH == 2
WEST == 3

(***************************************************************************)
(* Machine integers.  TLC's integers are 32-bit signed, so a u32 is kept   *)
(* as [top, low] with value top * 2^31 + low, and a u64 product as          *)
(* [hi, lo] with value hi * 2^31 + lo.                                     *)
(***************************************************************************)
\* core/src/rng.rs:37
A == 48271
\* core/src/rng.rs:38  (2^31 - 1)
M == 2147483647
\* 2^15 and 2^16: the limbs the products are computed in
Limb == 2^15
Limb2 == 2^16

U32(t, l) == [top |-> t, low |-> l]
U32Zero == U32(0, 0)
U32One == U32(0, 1)

\* x + y for 0 <= x, y < 2^31, as (carry, sum mod 2^31)
AddCarry(x, y) ==
    IF x > M - y THEN [carry |-> 1, sum |-> (x - (M - y)) - 1]
    ELSE [carry |-> 0, sum |-> x + y]

\* (x as u64) * k for a u32 x and 0 <= k < 2^16, exactly, as hi * 2^31 + lo
WideMul(x, k) ==
    LET a0 == x.low % Limb
        a1 == (x.low \div Limb) % Limb
        t  == 2 * x.top + (x.low \div (Limb * Limb))
        p0 == a0 * k
        p1 == a1 * k
        p2 == t * k
        s1 == AddCarry(p0, (p1 % Limb2) * Limb)
        s2 == AddCarry(s1.sum, (p2 % 2) * (Limb * Limb))
    IN  [hi |-> (p1 \div Limb2) + (p2 \div 2) + s1.carry + s2.carry,
         lo |-> s2.sum]

\* w % M for w = hi * 2^31 + lo: 2^31 = M + 1, so w = hi * M + (hi + lo)
WideMod(w) ==
    LET h == w.hi % M
        l == w.lo % M
    IN  IF h >= M - l THEN h - (M - l) ELSE h + l

\* w / M (integer division) for w = hi * 2^31 + lo with hi < M
WideDiv(w) ==
    LET s == AddCarry(w.hi, w.lo)
    IN  IF s.carry = 1 THEN w.hi + 1 + (IF s.sum + 1 >= M THEN 1 ELSE 0)
        ELSE w.hi + (IF s.sum >= M THEN 1 ELSE 0)

(***************************************************************************)
(* SimpleLCG (core/src/rng.rs)                                             *)
(***************************************************************************)
\* variant: seed 0 is kept
LcgNew_KeepZero(seed) == seed

\* SimpleLCG::new: seed 0 is replaced by 1
LcgNew(seed) == IF seed = U32Zero THEN U32One ELSE seed

\* variant: the product is reduced modulo 2^31
LcgAdvance_Mod2Pow31(state) == U32(0, WideMul(state, A).lo)

\* SimpleLCG::advance: state = ((state as u64 * A) % M) as u32
LcgAdvance(state) == U32(0, WideMod(WideMul(state, A)))

\* SimpleLCG::choice_index: advance, then (state as u64 * len as u64) / M.
\* Returns the new state and the index.
LcgChoiceIndex(state, len) ==
    LET s == LcgAdvance(state)
    IN  [state |-> s, idx |-> WideDiv(WideMul(s, len))]

\* usize, as the 32-bit word it is for the guests (riscv32): usize::MAX
USIZE_MAX == U32(1, M)

\* x <= y for two words
ULeq(x, y) == x.top < y.top \/ (x.top = y.top /\ x.low <= y.low)

\* b - a for words a <= b
UsizeSub(b, a) ==
    IF b.low >= a.low THEN U32(b.top - a.top, b.low - a.low)
    ELSE U32(b.top - a.top - 1, ((M - a.low) + b.low) + 1)

\* x + y for two words: whether the sum leaves the word, and the sum reduced
\* to the word
UsizeAdd(x, y) ==
    LET s == AddCarry(x.low, y.low)
        t == x.top + y.top + s.carry
    IN  [overflow |-> t >= 2, sum |-> U32(t % 2, s.sum)]

\* SimpleLCG::randint: advance, range = (b - a + 1) as u64,
\* scaled = (state as u64 * range) / M, a + scaled as usize.  An addition
\* that leaves the word panics in a build with overflow checks and wraps in
\* one without.  The product is computed for ranges below 2^16.
LcgRandint(state, a, b, overflow_checks) ==
    LET s == LcgAdvance(state)
        range == UsizeAdd(UsizeSub(b, a), U32One)
        scaled == WideDiv(WideMul(s, range.sum.low))
        result == UsizeAdd(a, U32(0, scaled))
    IN  IF overflow_checks /\ range.overflow
        THEN [state |-> s, kind |-> "panic", value |-> U32Zero]
        ELSE IF overflow_checks /\ result.overflow
        THEN [state |-> s, kind |-> "panic", value |-> U32Zero]
        ELSE [state |-> s, kind |-> "value", value |-> result.sum]


(***************************************************************************)
(* Variables                                                               *)
(***************************************************************************)
VARIABLES
    gen,        \* Maze::generate: the Maze under construction and the locals
                \* of recursive_backtracker (stack, stack_len, current, rng)
    gen_hist,   \* history of the run: pushes per cell, pops, RNG draws, the
                \* kind of the last loop iteration
    rp,         \* verify_maze_solution: its arguments and locals (moves, grid,
                \* grid_size, start_pos, end_pos, i, row, col, has_reached_end)
                \* and its return value
    host,       \* the host: the MazeProof it holds, the arguments of
                \* verify_path_proof and its result
    guest,      \* the path-verify guest: its input stream and how much of it
                \* was read, its locals, its journal
    lcg,        \* two SimpleLCG objects constructed side by side: their
                \* seeds and states, the calls made on them and what each
                \* call returned
    worker      \* the proving worker: its runtime, and per request the
                \* position of prove_handler, the witness file, the removal
                \* task and the run of bb

vars == <<gen, gen_hist, rp, host, guest, lcg, worker>>

(***************************************************************************)
(* Maze generator (core/src/maze_gen.rs)                                   *)
(***************************************************************************)
CellRows == 0 .. (MAX_MAZE_ROWS - 1)
CellCols == 0 .. (MAX_MAZE_COLS - 1)
Dirs == {NORTH, EAST, SOUTH, WEST}

\* Cell::new: all four walls present, not visited
CellNew == [walls |-> [d \in Dirs |-> TRUE], visited |-> FALSE]

\* usize wrapping_sub(1): 0 wraps to usize::MAX, which is kept as M here (any
\* value above every dimension behaves alike in the bounds checks)
WrappingSub1(x) == IF x = 0 THEN M ELSE x - 1

\* variant: the direction itself is returned
OppositeDir_Same(dir) == dir

\* Maze::opposite_dir
OppositeDir(dir) ==
    CASE dir = NORTH -> SOUTH
      [] dir = SOUTH -> NORTH
      [] dir = EAST -> WEST
      [] dir = WEST -> EAST

\* variant: EAST is examined before NORTH
Directions_EastFirst(row, col) ==
    << <<EAST, row, col + 1>>,
       <<NORTH, WrappingSub1(row), col>>,
       <<SOUTH, row + 1, col>>,
       <<WEST, row, WrappingSub1(col)>> >>

\* the candidates of get_unvisited_neighbors, in the order they are examined
Directions(row, col) ==
    << <<NORTH, WrappingSub1(row), col>>,
       <<EAST, row, col + 1>>,
       <<SOUTH, row + 1, col>>,
       <<WEST, row, WrappingSub1(col)>> >>

\* mutant: the visited test is dropped
IsUnvisitedNeighbor_NoVisitedTest(g, cand) ==
    /\ cand[2] < g.rows
    /\ cand[3] < g.cols

\* variant: the bounds are those of the cells array, not of the maze
IsUnvisitedNeighbor_ArrayBounds(g, cand) ==
    /\ cand[2] < MAX_MAZE_ROWS
    /\ cand[3] < MAX_MAZE_COLS
    /\ ~g.cells[cand[2]][cand[3]].visited

\* the bounds-and-visited test of get_unvisited_neighbors for one candidate
IsUnvisitedNeighbor(g, cand) ==
    /\ cand[2] < g.rows
    /\ cand[3] < g.cols
    /\ ~g.cells[cand[2]][cand[3]].visited

\* Maze::get_unvisited_neighbors: the first `count` entries of the array
GetUnvisitedNeighbors(g, row, col) ==
    SelectSeq(Directions(row, col), LAMBDA cand : IsUnvisitedNeighbor(g, cand))

\* variant: only the rows are tested
DimensionsOk_RowsOnly(rows, cols) == rows <= MAX_MAZE_ROWS

\* the dimension assertion of Maze::generate
DimensionsOk(rows, cols) == rows <= MAX_MAZE_ROWS /\ cols <= MAX_MAZE_COLS

\* Maze::generate up to the loop of recursive_backtracker: the cells array,
\* the RNG, the start cell marked visited and pushed
BacktrackerStart(rows, cols, seed) ==
    [ rows |-> rows,
      cols |-> cols,
      cells |-> [r \in CellRows |-> [c \in CellCols |->
                   IF r = 0 /\ c = 0 THEN [CellNew EXCEPT !.visited = TRUE]
                   ELSE CellNew]],
      rng |-> LcgNew(seed),
      stack |-> [i \in 0 .. (STACK_SLOTS - 1) |-> <<0, 0>>],
      stack_len |-> 1,
      current |-> <<0, 0>>,
      pc |-> "loop" ]

\* the condition of the while loop
LoopGuard(g) == g.stack_len > 0

\* the branch taken by an iteration
NeighborCount(g) == Len(GetUnvisitedNeighbors(g, g.current[1], g.current[2]))

\* mutant: the chosen neighbour is not marked visited
CarveStep_NoMark(g) ==
    LET row == g.current[1]
        col == g.current[2]
        neighbors == GetUnvisitedNeighbors(g, row, col)
        draw == LcgChoiceIndex(g.rng, Len(neighbors))
        chosen == neighbors[draw.idx + 1]
        dir == chosen[1]
        nr == chosen[2]
        nc == chosen[3]
        cleared == [g.cells EXCEPT ![row][col].walls[dir] = FALSE]
        marked == [cleared EXCEPT ![nr][nc].walls[OppositeDir(dir)] = FALSE]
    IN  IF g.stack_len >= STACK_SLOTS
        THEN [g EXCEPT !.rng = draw.state, !.cells = marked, !.pc = "panic"]
        ELSE [g EXCEPT !.rng = draw.state,
                       !.cells = marked,
                       !.stack[g.stack_len] = <<nr, nc>>,
                       !.stack_len = g.stack_len + 1,
                       !.current = <<nr, nc>>]

\* the `if neighbor_count > 0` branch: choose, clear both walls, mark, push,
\* move the cursor.  A push beyond the array panics.
CarveStep(g) ==
    LET row == g.current[1]
        col == g.current[2]
        neighbors == GetUnvisitedNeighbors(g, row, col)
        draw == LcgChoiceIndex(g.rng, Len(neighbors))
        chosen == neighbors[draw.idx + 1]
        dir == chosen[1]
        nr == chosen[2]
        nc == chosen[3]
        cleared == [g.cells EXCEPT ![row][col].walls[dir] = FALSE]
        marked == [cleared EXCEPT ![nr][nc].walls[OppositeDir(dir)] = FALSE,
                                  ![nr][nc].visited = TRUE]
    IN  IF g.stack_len >= STACK_SLOTS
        THEN [g EXCEPT !.rng = draw.state, !.cells = marked, !.pc = "panic"]
        ELSE [g EXCEPT !.rng = draw.state,
                       !.cells = marked,
                       !.stack[g.stack_len] = <<nr, nc>>,
                       !.stack_len = g.stack_len + 1,
                       !.current = <<nr, nc>>]

\* mutant: the pop never moves the cursor
PopStep_KeepCursor(g) ==
    IF g.stack_len - 1 \notin DOMAIN g.stack
    THEN [g EXCEPT !.pc = "panic"]
    ELSE [g EXCEPT !.stack_len = g.stack_len - 1]

\* mutant: the cursor moves to the entry left on top of the stack
PopStep_Peek(g) ==
    IF g.stack_len - 1 \notin DOMAIN g.stack
    THEN [g EXCEPT !.pc = "panic"]
    ELSE [g EXCEPT !.stack_len = g.stack_len - 1,
                   !.current = IF g.stack_len >= 2
                               THEN g.stack[g.stack_len - 2]
                               ELSE g.stack[g.stack_len - 1]]

\* the else branch: popped = stack[stack_len - 1]; stack_len -= 1;
\* current = popped.  Indexing below slot 0 panics.
PopStep(g) ==
    IF g.stack_len - 1 \notin DOMAIN g.stack
    THEN [g EXCEPT !.pc = "panic"]
    ELSE [g EXCEPT !.stack_len = g.stack_len - 1,
                   !.current = g.stack[g.stack_len - 1]]

\* one iteration of the loop
BacktrackerStep(g) == IF NeighborCount(g) > 0 THEN CarveStep(g) ELSE PopStep(g)

\* recursive_backtracker run to the end of its loop
RECURSIVE RunBacktracker(_)
RunBacktracker(g) ==
    IF g.pc = "loop" /\ LoopGuard(g) THEN RunBacktracker(BacktrackerStep(g))
    ELSE g

\* Maze::generate as a function (the caller's view)
Generate(rows, cols, seed) == RunBacktracker(BacktrackerStart(rows, cols, seed))

\* Maze::to_binary_grid: a MAX_GRID_SIZE x MAX_GRID_SIZE array, 0 = wall,
\* 1 = path.  Position (i, j) is written by cell ((i-1)/2, (j-1)/2) as its
\* centre, or by the cell next to it whose wall toward (i, j) is cleared.
GridIndex == 0 .. (MAX_GRID_SIZE - 1)

IsCell(mz, r, c) == r \in 0 .. (mz.rows - 1) /\ c \in 0 .. (mz.cols - 1)

\* variant: the EAST and WEST passages are written on the wrong side
ToBinaryGrid_EastWestSwapped(mz) ==
    [i \in GridIndex |-> [j \in GridIndex |->
        IF \E r \in CellRows, c \in CellCols :
              /\ IsCell(mz, r, c)
              /\ LET gr == r * 2 + 1
                     gc == c * 2 + 1
                     cell == mz.cells[r][c]
                 IN  \/ (i = gr /\ j = gc)
                     \/ (~cell.walls[NORTH] /\ i = gr - 1 /\ j = gc)
                     \/ (~cell.walls[SOUTH] /\ i = gr + 1 /\ j = gc)
                     \/ (~cell.walls[EAST] /\ i = gr /\ j = gc - 1)
                     \/ (~cell.walls[WEST] /\ i = gr /\ j = gc + 1)
        THEN 1 ELSE 0]]

ToBinaryGrid(mz) ==
    [i \in GridIndex |-> [j \in GridIndex |->
        IF \E r \in CellRows, c \in CellCols :
              /\ IsCell(mz, r, c)
              /\ LET gr == r * 2 + 1
                     gc == c * 2 + 1
                     cell == mz.cells[r][c]
                 IN  \/ (i = gr /\ j = gc)
                     \/ (~cell.walls[NORTH] /\ i = gr - 1 /\ j = gc)
                     \/ (~cell.walls[SOUTH] /\ i = gr + 1 /\ j = gc)
                     \/ (~cell.walls[EAST] /\ i = gr /\ j = gc + 1)
                     \/ (~cell.walls[WEST] /\ i = gr /\ j = gc - 1)
        THEN 1 ELSE 0]]


(***************************************************************************)
(* Replay machine: verify_maze_solution (methods/path-verify/src/main.rs)   *)
(***************************************************************************)
\* ROW_DELTAS, COL_DELTAS: indexed by direction (+ 1, sequences start at 1)
ROW_DELTAS == <<-1, 0, 1, 0>>
COL_DELTAS == <<0, 1, 0, -1>>

\* variant: a negative sum loses its sign
I32AsUsize_Magnitude(v) == IF v < 0 THEN 0 - v ELSE v

\* (x as i32).wrapping_add(delta) as usize: a negative sum becomes a usize of
\* 2^32 - 1, kept as M here (it is only compared with grid_size)
I32AsUsize(v) == IF v < 0 THEN M ELSE v

\* variant: the goal counts as reached on entry
ReplayEnter_StartsReached(moves, grid, grid_size, start_pos, end_pos) ==
    [ pc |-> "loop",
      moves |-> moves,
      grid |-> grid,
      grid_size |-> grid_size,
      start_pos |-> start_pos,
      end_pos |-> end_pos,
      i |-> 0,
      row |-> start_pos,
      col |-> start_pos,
      has_reached_end |-> TRUE,
      result |-> FALSE ]

\* the arguments and locals on entry, and the check of the start cell
ReplayEnter(moves, grid, grid_size, start_pos, end_pos) ==
    LET f == [ pc |-> "loop",
               moves |-> moves,
               grid |-> grid,
               grid_size |-> grid_size,
               start_pos |-> start_pos,
               end_pos |-> end_pos,
               i |-> 0,
               row |-> start_pos,
               col |-> start_pos,
               has_reached_end |-> FALSE,
               result |-> FALSE ]
    IN  IF grid[start_pos][start_pos] # 1
        THEN [f EXCEPT !.pc = "returned", !.result = FALSE]
        ELSE f

\* variant: the loop without its break
ReplayContinues_NoBreak(f) == f.i < Len(f.moves)

\* the loop goes on: i is in 0..moves.len() and the break is not taken
ReplayContinues(f) == f.i < Len(f.moves) /\ ~f.has_reached_end

\* variant: a rejected move is skipped instead of ending the replay
ReplayMoveStep_SkipRejected(f) ==
    LET direction == f.moves[f.i + 1]
        next_row == I32AsUsize(f.row + ROW_DELTAS[(direction % 4) + 1])
        next_col == I32AsUsize(f.col + COL_DELTAS[(direction % 4) + 1])
        accepted == /\ direction <= 3
                    /\ next_row < f.grid_size
                    /\ next_col < f.grid_size
                    /\ f.grid[next_row][next_col] = 1
    IN  IF ~accepted
        THEN [f EXCEPT !.i = f.i + 1]
        ELSE [f EXCEPT !.row = next_row,
                       !.col = next_col,
                       !.has_reached_end =
                           IF next_row = f.end_pos /\ next_col = f.end_pos
                           THEN TRUE ELSE @,
                       !.i = f.i + 1]

\* variant: the direction byte is reduced modulo 4
ReplayMoveStep_DirectionModulo(f) ==
    LET direction == f.moves[f.i + 1] % 4
        next_row == I32AsUsize(f.row + ROW_DELTAS[direction + 1])
        next_col == I32AsUsize(f.col + COL_DELTAS[direction + 1])
    IN  IF next_row >= f.grid_size \/ next_col >= f.grid_size
        THEN [f EXCEPT !.pc = "returned", !.result = FALSE]
        ELSE IF f.grid[next_row][next_col] # 1
        THEN [f EXCEPT !.pc = "returned", !.result = FALSE]
        ELSE [f EXCEPT !.row = next_row,
                       !.col = next_col,
                       !.has_reached_end =
                           IF next_row = f.end_pos /\ next_col = f.end_pos
                           THEN TRUE ELSE @,
                       !.i = f.i + 1]

\* variant: only the byte 0 is a wall
ReplayMoveStep_OnlyZeroIsWall(f) ==
    LET direction == f.moves[f.i + 1]
    IN  IF direction > 3
        THEN [f EXCEPT !.pc = "returned", !.result = FALSE]
        ELSE
          LET next_row == I32AsUsize(f.row + ROW_DELTAS[direction + 1])
              next_col == I32AsUsize(f.col + COL_DELTAS[direction + 1])
          IN  IF next_row >= f.grid_size \/ next_col >= f.grid_size
              THEN [f EXCEPT !.pc = "returned", !.result = FALSE]
              ELSE IF f.grid[next_row][next_col] = 0
              THEN [f EXCEPT !.pc = "returned", !.result = FALSE]
              ELSE [f EXCEPT !.row = next_row,
                             !.col = next_col,
                             !.has_reached_end =
                                 IF next_row = f.end_pos /\ next_col = f.end_pos
                                 THEN TRUE ELSE @,
                             !.i = f.i + 1]

\* variant: the position is updated before the wall check
ReplayMoveStep_MoveThenCheck(f) ==
    LET direction == f.moves[f.i + 1]
    IN  IF direction > 3
        THEN [f EXCEPT !.pc = "returned", !.result = FALSE]
        ELSE
          LET next_row == I32AsUsize(f.row + ROW_DELTAS[direction + 1])
              next_col == I32AsUsize(f.col + COL_DELTAS[direction + 1])
          IN  IF next_row >= f.grid_size \/ next_col >= f.grid_size
              THEN [f EXCEPT !.pc = "returned", !.result = FALSE]
              ELSE IF f.grid[next_row][next_col] # 1
              THEN [f EXCEPT !.row = next_row, !.col = next_col,
                             !.pc = "returned", !.result = FALSE]
              ELSE [f EXCEPT !.row = next_row,
                             !.col = next_col,
                             !.has_reached_end =
                                 IF next_row = f.end_pos /\ next_col = f.end_pos
                                 THEN TRUE ELSE @,
                             !.i = f.i + 1]

\* the loop body for moves[i], past the break
ReplayMoveStep(f) ==
    LET direction == f.moves[f.i + 1]
    IN  IF direction > 3
        THEN [f EXCEPT !.pc = "returned", !.result = FALSE]
        ELSE
          LET next_row == I32AsUsize(f.row + ROW_DELTAS[direction + 1])
              next_col == I32AsUsize(f.col + COL_DELTAS[direction + 1])
          IN  IF next_row >= f.grid_size \/ next_col >= f.grid_size
              THEN [f EXCEPT !.pc = "returned", !.result = FALSE]
              ELSE IF f.grid[next_row][next_col] # 1
              THEN [f EXCEPT !.pc = "returned", !.result = FALSE]
              ELSE [f EXCEPT !.row = next_row,
                             !.col = next_col,
                             !.has_reached_end =
                                 IF next_row = f.end_pos /\ next_col = f.end_pos
                                 THEN TRUE ELSE @,
                             !.i = f.i + 1]

\* variant: a replay that runs out of moves counts as a success
ReplayReturn_True(f) == [f EXCEPT !.pc = "returned", !.result = TRUE]

\* the end of the loop (exhausted or break) and the final `has_reached_end`
ReplayReturn(f) == [f EXCEPT !.pc = "returned", !.result = f.has_reached_end]

\* verify_maze_solution as a function
RECURSIVE RunReplay(_)
RunReplay(f) ==
    IF f.pc # "loop" THEN f
    ELSE IF ReplayContinues(f) THEN RunReplay(ReplayMoveStep(f))
    ELSE ReplayReturn(f)

VerifyMazeSolution(moves, grid, grid_size, start_pos, end_pos) ==
    RunReplay(ReplayEnter(moves, grid, grid_size, start_pos, end_pos)).result

(***************************************************************************)
(* SpecGen: Maze::generate(rows, cols, seed), one loop iteration per step   *)
(***************************************************************************)
\* 1, 12345, 2^31 - 2, 2^31 - 1, 2^31, 2918957128 (the seed of the integration
\* tests), 2^32 - 2, 2^32 - 1
SpecialSeeds ==
    { U32(0, 1), U32(0, 12345), U32(0, M - 1), U32(0, M),
      U32(1, 0), U32(1, 771473480), U32(1, M - 1), U32(1, M) }

Seeds == { U32(0, s * SeedStride) : s \in 0 .. MaxSeed } \cup SpecialSeeds

\* the dimensions a caller may pass: one beyond the maximum included
RowArgs == 1 .. (MAX_MAZE_ROWS + 1)
ColArgs == 1 .. (MAX_MAZE_COLS + 1)

AllCells == CellRows \X CellCols

GenHistStart ==
    [ pushed |-> [cell \in AllCells |-> IF cell = <<0, 0>> THEN 1 ELSE 0],
      pops_kept |-> 0,      \* pops that left the cursor where it was
      pops_moved |-> 0,     \* pops that moved the cursor
      draws |-> 0,
      last |-> "start",
      seed |-> U32Zero ]    \* the seed argument of the call

InitGen ==
    /\ \E rows \in RowArgs, cols \in ColArgs, seed \in Seeds :
          /\ gen = [pc |-> "call", rows |-> rows, cols |-> cols, seed |-> seed]
          /\ gen_hist = [GenHistStart EXCEPT !.seed = seed]
    /\ rp = [pc |-> "idle"]
    /\ host = [pc |-> "idle"]
    /\ guest = [pc |-> "idle"]
    /\ lcg = [pc |-> "idle"]
    /\ worker = <<>>

\* Maze::generate: the assertion, then the set-up of recursive_backtracker
GenerateCall ==
    /\ gen.pc = "call"
    /\ gen' = IF DimensionsOk(gen.rows, gen.cols)
              THEN BacktrackerStart(gen.rows, gen.cols, gen.seed)
              ELSE [pc |-> "panic", rows |-> gen.rows, cols |-> gen.cols]
    /\ UNCHANGED <<gen_hist, rp, host, guest, lcg, worker>>

\* variant: the generator may advance once more before the draw
Carve_ExtraAdvance ==
    /\ gen.pc = "loop"
    /\ LoopGuard(gen)
    /\ NeighborCount(gen) > 0
    /\ \E state \in {gen.rng, LcgAdvance(gen.rng)} :
          gen' = BacktrackerStep([gen EXCEPT !.rng = state])
    /\ gen_hist' = [gen_hist EXCEPT
                      !.pushed = IF gen'.pc = "panic" THEN @
                                 ELSE [@ EXCEPT ![gen'.current] = @ + 1],
                      !.draws = @ + 1,
                      !.last = "carve"]
    /\ UNCHANGED <<rp, host, guest, lcg, worker>>

\* a loop iteration that finds an unvisited neighbour
Carve ==
    /\ gen.pc = "loop"
    /\ LoopGuard(gen)
    /\ NeighborCount(gen) > 0
    /\ gen' = BacktrackerStep(gen)
    /\ gen_hist' = [gen_hist EXCEPT
                      !.pushed = IF gen'.pc = "panic" THEN @
                                 ELSE [@ EXCEPT ![gen'.current] = @ + 1],
                      !.draws = @ + 1,
                      !.last = "carve"]
    /\ UNCHANGED <<rp, host, guest, lcg, worker>>

\* a loop iteration that finds none
Backtrack ==
    /\ gen.pc = "loop"
    /\ LoopGuard(gen)
    /\ NeighborCount(gen) = 0
    /\ gen' = BacktrackerStep(gen)
    /\ gen_hist' = [gen_hist EXCEPT
                      !.pops_kept = IF gen'.current = gen.current
                                    THEN @ + 1 ELSE @,
                      !.pops_moved = IF gen'.current # gen.current
                                     THEN @ + 1 ELSE @,
                      !.last = "pop"]
    /\ UNCHANGED <<rp, host, guest, lcg, worker>>

\* the loop ends and Maze::generate returns the maze
LoopExit ==
    /\ gen.pc = "loop"
    /\ ~LoopGuard(gen)
    /\ gen' = [gen EXCEPT !.pc = "done"]
    /\ UNCHANGED <<gen_hist, rp, host, guest, lcg, worker>>

NextGen == GenerateCall \/ Carve \/ Backtrack \/ LoopExit

SpecGen == InitGen /\ [][NextGen]_vars


(***************************************************************************)
(* Graph notions used to state the generator's properties                  *)
(***************************************************************************)
\* the cells of the rows x cols maze, and those marked visited
MazeCells(g) == { cell \in AllCells : IsCell(g, cell[1], cell[2]) }
VisitedCells(g) == { cell \in AllCells : g.cells[cell[1]][cell[2]].visited }

\* the position one step from a cell in a direction (possibly off the array)
Toward(cell, dir) ==
    CASE dir = NORTH -> <<cell[1] - 1, cell[2]>>
      [] dir = EAST -> <<cell[1], cell[2] + 1>>
      [] dir = SOUTH -> <<cell[1] + 1, cell[2]>>
      [] dir = WEST -> <<cell[1], cell[2] - 1>>

\* every cleared wall, as the passage it opens
Passages(g) ==
    { {cell, Toward(cell, dir)} :
        <<cell, dir>> \in { cd \in AllCells \X Dirs :
                              ~g.cells[cd[1][1]][cd[1][2]].walls[cd[2]] } }

\* what can be reached from `from` over the edges `edges`
RECURSIVE ReachOver(_, _)
ReachOver(from, edges) ==
    LET more == { y \in UNION edges : \E x \in from : {x, y} \in edges }
    IN  IF more \subseteq from THEN from ELSE ReachOver(from \cup more, edges)

\* the number of cleared walls of a cell
OpenWalls(g, cell) ==
    Cardinality({ d \in Dirs : ~g.cells[cell[1]][cell[2]].walls[d] })

\* the path positions of a canonical grid, and its moves between them
PathPositions(grid) ==
    { p \in GridIndex \X GridIndex : grid[p[1]][p[2]] = 1 }

GridSteps(grid) ==
    { {p, q} : <<p, q>> \in
        { pq \in PathPositions(grid) \X PathPositions(grid) :
            \/ (pq[1][1] = pq[2][1] /\ pq[1][2] + 1 = pq[2][2])
            \/ (pq[1][2] = pq[2][2] /\ pq[1][1] + 1 = pq[2][1]) } }

(***************************************************************************)
(* C7: when the backtracker terminates, every cell of the rows x cols maze  *)
(* has been visited, the path positions of the canonical grid form one      *)
(* connected component that contains the start (1,1), and the goal          *)
(* (2*rows-1, 2*cols-1) is among them.                                      *)
(***************************************************************************)
C7_AllVisitedAndConnected ==
    gen.pc = "done" =>
        LET grid == ToBinaryGrid(gen)
            reached == ReachOver({<<1, 1>>}, GridSteps(grid))
        IN  /\ MazeCells(gen) \subseteq VisitedCells(gen)
            /\ grid[1][1] = 1
            /\ PathPositions(grid) = reached
            /\ <<2 * gen.rows - 1, 2 * gen.cols - 1>> \in reached

\* a terminated run on the largest maze whose tree branches: a cell that was
\* resumed after a pop has carved again
C7_Witness ==
    /\ gen.pc = "done"
    /\ gen.rows = MAX_MAZE_ROWS
    /\ gen.cols = MAX_MAZE_COLS
    /\ gen_hist.pops_moved > 0
    /\ \E cell \in MazeCells(gen) : OpenWalls(gen, cell) >= 3

(***************************************************************************)
(* C8: in every state of the generation the carved passages form a tree     *)
(* over the visited cells (they join visited cells of the maze only, they   *)
(* connect all of them, and there is one passage fewer than visited         *)
(* cells), so there is exactly one simple path between any two visited      *)
(* cells and no cycle.                                                      *)
(***************************************************************************)
C8_PassagesFormTree ==
    gen.pc \in {"loop", "done"} =>
        LET visited == VisitedCells(gen)
            passages == Passages(gen)
        IN  /\ UNION passages \subseteq visited
            /\ visited \subseteq MazeCells(gen)
            /\ ReachOver({<<0, 0>>}, passages) = visited
            /\ Cardinality(passages) = Cardinality(visited) - 1

\* a finished maze of the largest size, where a cycle would be possible
C8_Witness ==
    /\ gen.pc = "done"
    /\ gen.rows = MAX_MAZE_ROWS
    /\ gen.cols = MAX_MAZE_COLS
    /\ Cardinality(Passages(gen)) = MAX_MAZE_ROWS * MAX_MAZE_COLS - 1

(***************************************************************************)
(* C9 as claimed: whenever the backtracker pops, the cursor is not changed  *)
(* by the pop (the popped entry is the cell that was already current).      *)
(***************************************************************************)
IsPop == gen.pc = "loop" /\ gen'.pc = "loop" /\ gen'.stack_len < gen.stack_len

C10_StackBounded ==
    /\ gen.pc \in {"loop", "done"} =>
          /\ \A cell \in AllCells : gen_hist.pushed[cell] <= 1
          /\ gen.stack_len <= gen.rows * gen.cols
          /\ gen.stack_len <= STACK_SLOTS
          /\ gen.stack_len >= 0
          /\ gen.stack_len =
                Cardinality({ cell \in AllCells : gen_hist.pushed[cell] > 0 })
                  - (gen_hist.pops_kept + gen_hist.pops_moved)
    /\ gen.pc = "panic" => ~DimensionsOk(gen.rows, gen.cols)

\* the stack has been as long as the array allows, and has been emptied
C10_Witness ==
    /\ gen.pc = "done"
    /\ gen.stack_len = 0
    /\ gen.rows * gen.cols = STACK_SLOTS
    /\ \A cell \in AllCells : gen_hist.pushed[cell] = 1
    /\ gen.stack[STACK_SLOTS - 1] # <<0, 0>>


(***************************************************************************)
(* SpecReplay: verify_maze_solution applied to a grid and a move sequence   *)
(***************************************************************************)
\* the canonical grid of the maze-gen guest: the GRID_SIZE x GRID_SIZE part of
\* to_binary_grid of Maze::generate(MAZE_ROWS, MAZE_COLS, seed)
GuestGridIndex == 0 .. (GRID_SIZE - 1)

CanonicalGrid(seed) ==
    LET full == ToBinaryGrid(Generate(MAZE_ROWS, MAZE_COLS, seed))
    IN  [i \in GuestGridIndex |-> [j \in GuestGridIndex |-> full[i][j]]]

\* the seeds whose canonical grids are replayed: 2^31 - 2 and 2918957128
\* (two different mazes)
ReplaySeeds == { U32(0, M - 1), U32(1, 771473480) }

\* the bytes a grid cell may hold (u8; 2 stands for every value above 1)
CellBytes == {0, 1, 2}

\* the bytes of a move (u8; WEST + 1 stands for every value above 3)
MoveBytes == Dirs \cup {WEST + 1}

\* a grid with at most one cell overwritten
Overwritten(grid) ==
    {grid} \cup { [grid EXCEPT ![p[1]][p[2]] = v] :
                    <<p, v>> \in (GuestGridIndex \X GuestGridIndex) \X CellBytes }

ReplayGrids == UNION { Overwritten(CanonicalGrid(seed)) : seed \in ReplaySeeds }

\* move sequences of every length up to MaxLen
MoveSeqs == UNION { [1 .. n -> MoveBytes] : n \in 0 .. MaxLen }

\* walks east and south of MAX_MOVES moves and of one more
LongMoves ==
    UNION { [1 .. n -> {EAST, SOUTH}] : n \in {MAX_MOVES, MAX_MOVES + 1} }

\* walks of two more than MAX_MOVES moves: twice to a neighbour and back, then
\* east and south
DetourMoves ==
    { detour \o walk :
        detour \in { <<EAST, WEST, EAST, WEST>>, <<SOUTH, NORTH, SOUTH, NORTH>> },
        walk \in [1 .. (MAX_MOVES - 2) -> {EAST, SOUTH}] }

\* the move sequences handed to verify_path_proof
HostMoves == MoveSeqs \cup LongMoves \cup DetourMoves

InitReplay ==
    /\ rp = [pc |-> "idle"]
    /\ gen = [pc |-> "idle"]
    /\ gen_hist = GenHistStart
    /\ host = [pc |-> "idle"]
    /\ guest = [pc |-> "idle"]
    /\ lcg = [pc |-> "idle"]
    /\ worker = <<>>

\* a call with the start and goal the guest passes: 1 and GRID_SIZE - 2
ReplayCall ==
    /\ rp.pc = "idle"
    /\ \E grid \in ReplayGrids, moves \in MoveSeqs :
          rp' = ReplayEnter(moves, grid, GRID_SIZE, 1, GRID_SIZE - 2)
    /\ UNCHANGED <<gen, gen_hist, host, guest, lcg, worker>>

\* one loop iteration that processes a move
ReplayMove ==
    /\ rp.pc = "loop"
    /\ ReplayContinues(rp)
    /\ rp' = ReplayMoveStep(rp)
    /\ UNCHANGED <<gen, gen_hist, host, guest, lcg, worker>>

\* the loop ends and the function returns has_reached_end
ReplayFinish ==
    /\ rp.pc = "loop"
    /\ ~ReplayContinues(rp)
    /\ rp' = ReplayReturn(rp)
    /\ UNCHANGED <<gen, gen_hist, host, guest, lcg, worker>>

NextReplay == ReplayCall \/ ReplayMove \/ ReplayFinish

SpecReplay == InitReplay /\ [][NextReplay]_vars

(***************************************************************************)
(* What a move sequence traces on a grid, stated over plain integer         *)
(* positions                                                                *)
(***************************************************************************)
\* the position after the first k moves, started at (1,1); a byte that is no
\* direction moves nothing
RECURSIVE PositionAfter(_, _)
PositionAfter(moves, k) ==
    IF k = 0 THEN <<1, 1>>
    ELSE LET p == PositionAfter(moves, k - 1)
             d == moves[k]
         IN  IF d = NORTH THEN <<p[1] - 1, p[2]>>
             ELSE IF d = EAST THEN <<p[1], p[2] + 1>>
             ELSE IF d = SOUTH THEN <<p[1] + 1, p[2]>>
             ELSE IF d = WEST THEN <<p[1], p[2] - 1>>
             ELSE p

\* move k is a direction that leads to an in-bounds path cell
MoveAccepted(grid, size, moves, k) ==
    LET p == PositionAfter(moves, k)
    IN  /\ moves[k] \in {NORTH, EAST, SOUTH, WEST}
        /\ p[1] >= 0 /\ p[1] < size
        /\ p[2] >= 0 /\ p[2] < size
        /\ grid[p[1]][p[2]] = 1

\* the first k moves are all accepted and move k lands on the goal
PrefixLandsOnGoal(grid, size, moves, k) ==
    /\ k >= 1
    /\ \A j \in 1 .. k : MoveAccepted(grid, size, moves, j)
    /\ PositionAfter(moves, k) = <<size - 2, size - 2>>

HasGoalPrefix(grid, size, moves) ==
    \E k \in 1 .. Len(moves) : PrefixLandsOnGoal(grid, size, moves, k)

\* move k is rejected, every move before it is accepted and none of them lands
\* on the goal
RejectedBeforeGoal(grid, size, moves, k) ==
    /\ ~MoveAccepted(grid, size, moves, k)
    /\ \A j \in 1 .. (k - 1) :
          /\ MoveAccepted(grid, size, moves, j)
          /\ PositionAfter(moves, j) # <<size - 2, size - 2>>

(***************************************************************************)
(* C1                                                                      *)
(***************************************************************************)
\* C1 as claimed: verify_maze_solution returns true iff some prefix of the
\* moves consists of accepted moves (directions in {0,1,2,3} leading to
\* in-bounds path cells from (1,1)) and its last move lands on the goal
\* (size-2, size-2).
C1_Claimed_TrueIffGoalPrefix ==
    rp.pc = "returned" =>
        (rp.result <=> HasGoalPrefix(rp.grid, rp.grid_size, rp.moves))

\* C1 amended: verify_maze_solution returns true iff the start cell (1,1) is
\* itself a path cell and some prefix of the moves consists of accepted moves
\* whose last move lands on the goal (size-2, size-2).
C1_TrueIffStartIsPathAndGoalPrefix ==
    rp.pc = "returned" =>
        (rp.result <=> /\ rp.grid[1][1] = 1
                       /\ HasGoalPrefix(rp.grid, rp.grid_size, rp.moves))

\* a true verdict on a proper prefix: the goal is reached before the moves
\* run out
C1_Witness ==
    /\ rp.pc = "returned"
    /\ rp.result
    /\ rp.i >= 1
    /\ rp.i < Len(rp.moves)
    /\ PrefixLandsOnGoal(rp.grid, rp.grid_size, rp.moves, rp.i)

(***************************************************************************)
(* C2                                                                      *)
(***************************************************************************)
\* C2: once the replay position equals the goal the machine processes no
\* further move: its next step is the return of true with the position and
\* the count of processed moves as they were, whatever the remaining moves
\* are; and a returned replay whose moves have a prefix landing on the goal
\* has processed exactly the shortest such prefix.
C2_StopsAtGoal ==
    /\ (rp.pc = "loop" /\ rp.row = rp.end_pos /\ rp.col = rp.end_pos) =>
          /\ rp.has_reached_end
          /\ ~ReplayContinues(rp)
          /\ ReplayReturn(rp).result
          /\ ReplayReturn(rp).i = rp.i
    /\ (rp.pc = "returned" /\ rp.result) =>
          /\ <<rp.row, rp.col>> = <<rp.end_pos, rp.end_pos>>
          /\ PrefixLandsOnGoal(rp.grid, rp.grid_size, rp.moves, rp.i)
          /\ \A k \in 1 .. (rp.i - 1) :
                ~PrefixLandsOnGoal(rp.grid, rp.grid_size, rp.moves, k)

\* a true verdict although the move that follows the goal is no direction,
\* leaves the grid or enters a wall
C2_Witness ==
    /\ rp.pc = "returned"
    /\ rp.result
    /\ rp.i < Len(rp.moves)
    /\ ~MoveAccepted(rp.grid, rp.grid_size, rp.moves, rp.i + 1)

(***************************************************************************)
(* C3                                                                      *)
(***************************************************************************)
\* C3: if a move is rejected (no direction, out of bounds, or a wall) and no
\* move before it has landed on the goal, the verdict is false whatever moves
\* follow it.
C3_RejectionIsFinal ==
    (/\ rp.pc = "returned"
     /\ \E k \in 1 .. Len(rp.moves) :
           RejectedBeforeGoal(rp.grid, rp.grid_size, rp.moves, k))
        => /\ ~rp.result
           /\ \A k \in 1 .. Len(rp.moves) :
                 (rp.grid[1][1] = 1 /\
                  RejectedBeforeGoal(rp.grid, rp.grid_size, rp.moves, k))
                    => rp.i = k - 1

\* a rejected first move followed by moves that trace a valid route from the
\* start to the goal
C3_Witness ==
    /\ rp.pc = "returned"
    /\ ~rp.result
    /\ rp.i = 0
    /\ rp.grid[1][1] = 1
    /\ Len(rp.moves) > 1
    /\ ~MoveAccepted(rp.grid, rp.grid_size, rp.moves, 1)
    /\ HasGoalPrefix(rp.grid, rp.grid_size, Tail(rp.moves))

(***************************************************************************)
(* Stage 1: the maze-gen guest and generate_maze_proof                      *)
(***************************************************************************)
\* SHA-256 of a byte array.  The digest is kept as a tag around the bytes it
\* was computed from: equal digests exactly for equal inputs.
Sha256(bytes) == <<"sha256", bytes>>

FlatIndex == 0 .. (GRID_DATA_SIZE - 1)

\* variant: the guest lays the grid out column by column
GuestFlatten_ColumnMajor(grid) ==
    [k \in FlatIndex |-> grid[k % GRID_SIZE][k \div GRID_SIZE]]

\* maze-gen main: grid_bytes[i * grid_size + j] = grid[i][j]
GuestFlatten(grid) ==
    [k \in FlatIndex |-> grid[k \div GRID_SIZE][k % GRID_SIZE]]

\* maze-gen main: the journal is the seed and the hash of the flattened grid
MazeGenJournal(seed) ==
    [ maze_seed |-> seed,
      grid_hash |-> Sha256(GuestFlatten(CanonicalGrid(seed))) ]

\* Maze::to_binary_grid_vec: the first rows * 2 + 1 rows, and of each row the
\* first rows * 2 + 1 entries
ToBinaryGridVec(mz) ==
    LET grid_size == mz.rows * 2 + 1
        grid_array == ToBinaryGrid(mz)
    IN  [i \in 0 .. (grid_size - 1) |->
            [j \in 0 .. (grid_size - 1) |-> grid_array[i][j]]]

RegenerateMazeGrid(seed) ==
    ToBinaryGridVec(Generate(MAZE_ROWS, MAZE_COLS, seed))

\* enum ReceiptKind
ReceiptKinds == {"Composite", "Succinct", "Groth16"}

\* Option<ReceiptKind>
ReceiptKindOptions == {"None"} \cup ReceiptKinds

\* generate_maze_proof: the MazeProof of a seed.  A receipt is an image id, a
\* journal and whether it is a valid proof that this image produced this
\* journal.
GenerateMazeProof(maze_seed, receipt_kind) ==
    LET journal == MazeGenJournal(maze_seed)
    IN  [ maze_seed |-> journal.maze_seed,
          grid_hash |-> journal.grid_hash,
          grid_data |-> RegenerateMazeGrid(maze_seed),
          receipt |-> [ image_id |-> "MAZE_GEN_ID",
                        journal |-> journal,
                        genuine |-> TRUE ],
          receipt_kind |-> receipt_kind ]

(***************************************************************************)
(* Stage 2, host side: verify_path_proof                                    *)
(***************************************************************************)
MinOf(x, y) == IF x < y THEN x ELSE y

\* grid_flat[i * GRID_SIZE + j] = cell indexes past the array
FlattenPanics(grid_data) ==
    \E i \in DOMAIN grid_data : \E j \in DOMAIN grid_data[i] :
        i * GRID_SIZE + j >= GRID_DATA_SIZE

\* variant: the host lays the grid out column by column
HostFlatten_ColumnMajor(grid_data) ==
    [k \in 0 .. (GRID_DATA_SIZE - 1) |->
        LET i == k % GRID_SIZE
            j == k \div GRID_SIZE
        IN  IF i \in DOMAIN grid_data /\ j \in DOMAIN grid_data[i]
            THEN grid_data[i][j]
            ELSE 0]

\* grid_flat: zeros, then every cell of grid_data written in row order at
\* i * GRID_SIZE + j (the last write to an index stays)
HostFlatten(grid_data) ==
    [k \in FlatIndex |->
        LET writers == { i \in DOMAIN grid_data :
                            (k - i * GRID_SIZE) \in DOMAIN grid_data[i] }
        IN  IF writers = {} THEN 0
            ELSE LET i == CHOOSE w \in writers : \A v \in writers : v <= w
                 IN  grid_data[i][k - i * GRID_SIZE]]

\* the input stream written for the guest: image id, maze journal, grid,
\* move count, the first move_count moves
HostInput(maze_proof, moves) ==
    LET move_count == MinOf(Len(moves), MAX_MOVES)
    IN  << "MAZE_GEN_ID",
           maze_proof.receipt.journal,
           HostFlatten(maze_proof.grid_data),
           move_count,
           SubSeq(moves, 1, move_count) >>

\* variant: the override is ignored
ReceiptKindUsed_IgnoresOverride(maze_proof, receipt_kind_override) ==
    maze_proof.receipt_kind

\* receipt_kind_override.unwrap_or(maze_proof.receipt_kind)
ReceiptKindUsed(maze_proof, receipt_kind_override) ==
    IF receipt_kind_override = "None" THEN maze_proof.receipt_kind
    ELSE receipt_kind_override

\* the prover options chosen for a receipt kind
ProverOptsFor(receipt_kind) ==
    IF receipt_kind = "Composite" THEN "ProverOpts::composite"
    ELSE IF receipt_kind = "Succinct" THEN "ProverOpts::succinct"
    ELSE "ProverOpts::groth16"

\* verify_path_proof up to the launch of the prover
HostCallStep(maze_proof, moves, receipt_kind_override) ==
    LET receipt_kind == ReceiptKindUsed(maze_proof, receipt_kind_override)
    IN  IF FlattenPanics(maze_proof.grid_data)
        THEN [ pc |-> "panicked", maze_proof |-> maze_proof, moves |-> moves,
               receipt_kind_override |-> receipt_kind_override,
               receipt_kind |-> receipt_kind,
               opts |-> "none",
               result |-> [kind |-> "none"] ]
        ELSE [ pc |-> "proving", maze_proof |-> maze_proof, moves |-> moves,
               receipt_kind_override |-> receipt_kind_override,
               receipt_kind |-> receipt_kind,
               opts |-> ProverOptsFor(receipt_kind),
               result |-> [kind |-> "none"] ]

\* the guest at its entry, with the input stream and the receipt added as
\* assumption
GuestStart(maze_proof, moves) ==
    [ pc |-> "start",
      stdin |-> HostInput(maze_proof, moves),
      assumption |-> maze_proof.receipt,
      pos |-> 0,
      maze_seed |-> U32Zero,
      grid |-> <<>>,
      journal |-> <<>> ]

\* verify_path_proof after the prover: a failed proof is an Err, otherwise
\* the journal is decoded
HostDecodeStep(h, g) ==
    IF g.pc = "panicked"
    THEN [h EXCEPT !.pc = "returned", !.result = [kind |-> "Err"]]
    ELSE [h EXCEPT !.pc = "returned",
                   !.result = [ kind |-> "Ok",
                                is_valid |-> g.journal[1] # 0,
                                maze_seed |-> g.journal[2],
                                receipt_kind |-> h.receipt_kind ]]

(***************************************************************************)
(* Stage 2, guest side: path-verify main                                    *)
(***************************************************************************)
\* variant: only is_valid is committed
RejectAndReturn_NoSeed(g) ==
    [g EXCEPT !.pc = "done", !.journal = @ \o <<0>>]

\* commit of a PathJournal with is_valid 0, and return
RejectAndReturn(g) ==
    [g EXCEPT !.pc = "done", !.journal = @ \o <<0, g.maze_seed>>]

\* variant: a failed env::verify is ignored
GuestVerifyStep_Unchecked(g) ==
    [g EXCEPT !.pos = 2,
              !.maze_seed = g.stdin[2].maze_seed,
              !.pc = "verified"]

\* read the image id and the maze journal, parse the seed, env::verify of
\* the (image id, journal) pair that was read: it succeeds when the receipt
\* added as assumption is a valid proof of exactly this pair
GuestVerifyStep(g) ==
    LET maze_image_id == g.stdin[1]
        maze_journal == g.stdin[2]
        verified == /\ g.assumption.genuine
                    /\ g.assumption.image_id = maze_image_id
                    /\ g.assumption.journal = maze_journal
    IN  [g EXCEPT !.pos = 2,
                  !.maze_seed = maze_journal.maze_seed,
                  !.pc = IF verified THEN "verified" ELSE "panicked"]

\* variant: a hash mismatch commits is_valid 0 and goes on
GuestHashStep_NoReturn(g) ==
    LET grid_data == g.stdin[3]
    IN  IF Sha256(grid_data) # g.stdin[2].grid_hash
        THEN [g EXCEPT !.pos = 3, !.pc = "hash_ok",
                       !.journal = @ \o <<0, g.maze_seed>>,
                       !.grid = [i \in GuestGridIndex |-> [j \in GuestGridIndex |->
                                    grid_data[i * GRID_SIZE + j]]]]
        ELSE [g EXCEPT !.pos = 3, !.pc = "hash_ok",
                       !.grid = [i \in GuestGridIndex |-> [j \in GuestGridIndex |->
                                    grid_data[i * GRID_SIZE + j]]]]

\* read the grid, hash it, compare with the committed hash; on a match
\* convert the flat grid to the 2D array
GuestHashStep(g) ==
    LET grid_data == g.stdin[3]
        computed_hash == Sha256(grid_data)
        committed_hash == g.stdin[2].grid_hash
    IN  IF computed_hash # committed_hash
        THEN RejectAndReturn([g EXCEPT !.pos = 3])
        ELSE [g EXCEPT !.pos = 3, !.pc = "hash_ok",
                       !.grid = [i \in GuestGridIndex |-> [j \in GuestGridIndex |->
                                    grid_data[i * GRID_SIZE + j]]]]

\* variant: only the start cell is tested
GuestCellsStep_StartOnly(g) ==
    IF g.grid[1][1] # 1
    THEN RejectAndReturn(g)
    ELSE [g EXCEPT !.pc = "cells_ok"]

\* start and end cells must be paths
GuestCellsStep(g) ==
    LET start_pos == 1
        end_pos == GRID_SIZE - 2
    IN  IF g.grid[start_pos][start_pos] # 1 \/ g.grid[end_pos][end_pos] # 1
        THEN RejectAndReturn(g)
        ELSE [g EXCEPT !.pc = "cells_ok"]

\* the moves buffer: MAX_MOVES zeros, the first move_count of them read from
\* the input
MovesBuffer(move_count, read) ==
    [k \in 1 .. MAX_MOVES |-> IF k <= move_count THEN read[k] ELSE 0]

\* variant: a count of MAX_MOVES is rejected as well
GuestReadMovesStep_RejectAtBound(g) ==
    LET move_count == g.stdin[4]
    IN  IF move_count >= MAX_MOVES
        THEN RejectAndReturn([g EXCEPT !.pos = 4])
        ELSE [g EXCEPT !.pos = IF move_count > 0 THEN 5 ELSE 4,
                       !.pc = "replaying"]

\* read the move count; reject a count above MAX_MOVES; read the moves
GuestReadMovesStep(g) ==
    LET move_count == g.stdin[4]
    IN  IF move_count > MAX_MOVES
        THEN RejectAndReturn([g EXCEPT !.pos = 4])
        ELSE [g EXCEPT !.pos = IF move_count > 0 THEN 5 ELSE 4,
                       !.pc = "replaying"]

\* commit of the PathJournal after verify_maze_solution
GuestCommitStep(g, is_valid) ==
    [g EXCEPT !.pc = "done",
              !.journal = @ \o <<IF is_valid THEN 1 ELSE 0, g.maze_seed>>]

(***************************************************************************)
(* Spec: generate_maze_proof, then verify_path_proof with the path-verify   *)
(* guest                                                                    *)
(***************************************************************************)
\* the seeds of the artifacts that are handed on to verify_path_proof
PipelineSeeds == ReplaySeeds

\* the cells at which a claimed grid is overwritten: the border cell north of
\* the start, the start, the goal
TamperedCells == { <<0, 1>>, <<1, 1>>, <<GRID_SIZE - 2, GRID_SIZE - 2>> }

\* grid_data (a Vec<Vec<u8>>) of another shape: one more row, or one more
\* entry in the first or in the last row
OversizeGrids(grid_data) ==
    LET rows == Cardinality(DOMAIN grid_data)
        Longer(row) == [j \in 0 .. Cardinality(DOMAIN row) |->
                           IF j \in DOMAIN row THEN row[j] ELSE 1]
    IN  { [i \in 0 .. rows |->
              IF i \in DOMAIN grid_data THEN grid_data[i]
              ELSE [j \in DOMAIN grid_data[0] |-> 0]],
          [grid_data EXCEPT ![0] = Longer(@)],
          [grid_data EXCEPT ![rows - 1] = Longer(@)] }

\* the grid_data a caller may hand in with a MazeProof: the artifact's own,
\* one with a cell overwritten, the grid of another seed, or one of another
\* shape
ClaimedGrids(grid_data) ==
    {grid_data}
      \cup { [grid_data EXCEPT ![p[1]][p[2]] = v] :
                <<p, v>> \in TamperedCells \X CellBytes }
      \cup { RegenerateMazeGrid(seed) : seed \in PipelineSeeds }
      \cup OversizeGrids(grid_data)

\* the receipts a caller may hand in for a claimed grid: the artifact's own,
\* or a forged one whose journal commits to the claimed grid
ClaimedReceipts(maze_proof, grid_data) ==
    { maze_proof.receipt,
      [ image_id |-> "MAZE_GEN_ID",
        journal |-> [ maze_seed |-> maze_proof.maze_seed,
                      grid_hash |-> Sha256(HostFlatten(grid_data)) ],
        genuine |-> FALSE ] }

Init ==
    /\ host = [pc |-> "idle"]
    /\ guest = [pc |-> "idle"]
    /\ rp = [pc |-> "idle"]
    /\ gen = [pc |-> "idle"]
    /\ gen_hist = GenHistStart
    /\ lcg = [pc |-> "idle"]
    /\ worker = <<>>

\* stage 1: generate_maze_proof(seed)
HostGenerateMazeProof ==
    /\ host.pc = "idle"
    /\ \E seed \in Seeds, receipt_kind \in ReceiptKinds :
          host' = [ pc |-> "maze_proof",
                    maze_proof |-> GenerateMazeProof(seed, receipt_kind) ]
    /\ UNCHANGED <<guest, rp, gen, gen_hist, lcg, worker>>

\* stage 2: verify_path_proof(maze_proof, moves, None) up to the start of the
\* guest, for the artifacts of PipelineSeeds with a succinct receipt
HostVerifyPathProof ==
    /\ host.pc = "maze_proof"
    /\ host.maze_proof.maze_seed \in PipelineSeeds
    /\ host.maze_proof.receipt_kind = "Succinct"
    /\ \E grid_data \in ClaimedGrids(host.maze_proof.grid_data) :
          \E receipt \in ClaimedReceipts(host.maze_proof, grid_data) :
             LET maze_proof == [host.maze_proof EXCEPT !.grid_data = grid_data,
                                                       !.receipt = receipt]
             IN  \E moves \in HostMoves :
                    /\ host' = HostCallStep(maze_proof, moves, "None")
                    /\ guest' = IF FlattenPanics(grid_data) THEN guest
                                ELSE GuestStart(maze_proof, moves)
    /\ UNCHANGED <<rp, gen, gen_hist, lcg, worker>>

GuestVerify ==
    /\ guest.pc = "start"
    /\ guest' = GuestVerifyStep(guest)
    /\ UNCHANGED <<host, rp, gen, gen_hist, lcg, worker>>

GuestHash ==
    /\ guest.pc = "verified"
    /\ guest' = GuestHashStep(guest)
    /\ UNCHANGED <<host, rp, gen, gen_hist, lcg, worker>>

GuestCells ==
    /\ guest.pc = "hash_ok"
    /\ guest' = GuestCellsStep(guest)
    /\ UNCHANGED <<host, rp, gen, gen_hist, lcg, worker>>

\* the moves are read and verify_maze_solution is called with the whole
\* buffer
GuestReadMoves ==
    /\ guest.pc = "cells_ok"
    /\ guest' = GuestReadMovesStep(guest)
    /\ rp' = IF guest'.pc = "replaying"
             THEN ReplayEnter(MovesBuffer(guest.stdin[4], guest.stdin[5]),
                              guest.grid, GRID_SIZE, 1, GRID_SIZE - 2)
             ELSE rp
    /\ UNCHANGED <<host, gen, gen_hist, lcg, worker>>

GuestCommit ==
    /\ guest.pc = "replaying"
    /\ rp.pc = "returned"
    /\ guest' = GuestCommitStep(guest, rp.result)
    /\ UNCHANGED <<host, rp, gen, gen_hist, lcg, worker>>

HostDecode ==
    /\ host.pc = "proving"
    /\ guest.pc \in {"done", "panicked"}
    /\ host' = HostDecodeStep(host, guest)
    /\ UNCHANGED <<guest, rp, gen, gen_hist, lcg, worker>>

Next ==
    \/ HostGenerateMazeProof
    \/ HostVerifyPathProof
    \/ GuestVerify
    \/ GuestHash
    \/ GuestCells
    \/ GuestReadMoves
    \/ ReplayMove
    \/ ReplayFinish
    \/ GuestCommit
    \/ HostDecode

Spec == Init /\ [][Next]_vars

(***************************************************************************)
(* C4                                                                      *)
(***************************************************************************)
\* the guest is past its comparison of the hashes
PastHashCheck == guest.pc \in {"hash_ok", "cells_ok", "replaying", "done"}

\* the hash of the claimed grid differs from the hash in the stage-1 journal
HashMismatch == Sha256(guest.stdin[3]) # guest.stdin[2].grid_hash

\* C4: when the hash recomputed from the claimed grid differs from the hash
\* in the stage-1 journal, the guest ends normally with is_valid = 0 in its
\* journal, having read the input only up to the grid (neither the move count
\* nor the moves), the replay machine is never entered, and the host returns
\* Ok with is_valid = false.
C4_HashMismatchIsFalseVerdict ==
    (PastHashCheck /\ HashMismatch) =>
        /\ guest.pc = "done"
        /\ guest.journal = <<0, guest.stdin[2].maze_seed>>
        /\ guest.pos = 3
        /\ rp.pc = "idle"
        /\ host.pc = "returned" =>
              /\ host.result.kind = "Ok"
              /\ ~host.result.is_valid

\* the host has returned the false verdict for a claimed grid that differs
\* from the artifact's in one cell, with moves that solve the artifact's maze
C4_Witness ==
    /\ host.pc = "returned"
    /\ host.result.kind = "Ok"
    /\ ~host.result.is_valid
    /\ HashMismatch
    /\ guest.pos = 3
    /\ host.maze_proof.grid_data # RegenerateMazeGrid(host.maze_proof.maze_seed)
    /\ HasGoalPrefix(RegenerateMazeGrid(host.maze_proof.maze_seed),
                     GRID_SIZE, host.moves)

(***************************************************************************)
(* C5                                                                      *)
(***************************************************************************)
\* C5 as claimed: every move sequence longer than MAX_MOVES handed to
\* verify_path_proof with a genuine artifact yields Ok with is_valid = false.
C5_Claimed_OverlongIsFalseVerdict ==
    (/\ host.pc = "returned"
     /\ host.maze_proof.receipt.genuine
     /\ Len(host.moves) > MAX_MOVES)
        => /\ host.result.kind = "Ok"
           /\ ~host.result.is_valid

(***************************************************************************)
(* C6                                                                      *)
(***************************************************************************)
\* the moves buffer of the guest for an empty move sequence
ZeroMoves == MovesBuffer(0, <<>>)

\* C6: an empty move sequence never yields a true verdict: verify_path_proof
\* returns is_valid = false for it whenever it returns a verdict (and it does
\* for every genuine artifact, whatever the claimed grid), and
\* verify_maze_solution returns false on every grid both for the empty
\* sequence and for the zero-filled buffer the guest passes in its place.
C6_EmptyMovesYieldFalse ==
    /\ (host.pc = "returned" /\ Len(host.moves) = 0) =>
          /\ host.maze_proof.receipt.genuine => host.result.kind = "Ok"
          /\ host.result.kind = "Ok" => ~host.result.is_valid
    /\ host.pc = "idle" =>
          \A grid \in ReplayGrids :
             /\ ~VerifyMazeSolution(<<>>, grid, GRID_SIZE, 1, GRID_SIZE - 2)
             /\ ~VerifyMazeSolution(ZeroMoves, grid, GRID_SIZE, 1, GRID_SIZE - 2)

\* the false verdict for no moves on the artifact's own grid: the replay ran
\* over the zero-filled buffer and rejected its first entry
C6_Witness ==
    /\ host.pc = "returned"
    /\ Len(host.moves) = 0
    /\ host.result.kind = "Ok"
    /\ ~host.result.is_valid
    /\ ~HashMismatch
    /\ rp.pc = "returned"
    /\ rp.moves = ZeroMoves
    /\ rp.i = 0

RECURSIVE RowMajor(_, _)
RowMajor(grid_data, rows) ==
    IF rows = 0 THEN <<>>
    ELSE RowMajor(grid_data, rows - 1) \o
         [j \in 1 .. Cardinality(DOMAIN grid_data[rows - 1]) |->
             grid_data[rows - 1][j - 1]]

\* the bytes of a flat array as a sequence
FlatBytes(flat) == [k \in 1 .. Cardinality(DOMAIN flat) |-> flat[k - 1]]

\* the input a digest was computed from
HashedBytes(digest) == FlatBytes(digest[2])

\* C12: the MazeProof returned by generate_maze_proof carries the seed it was
\* asked for, its grid_hash is the hash in the journal of its receipt, and
\* that hash was computed from exactly the row-major flattening of its
\* grid_data: the grid regenerated on the host is the grid the guest hashed.
C12_CommitmentMatchesGrid ==
    host.pc = "maze_proof" =>
        LET maze_proof == host.maze_proof
            rows == Cardinality(DOMAIN maze_proof.grid_data)
        IN  /\ maze_proof.grid_hash = maze_proof.receipt.journal.grid_hash
            /\ maze_proof.maze_seed = maze_proof.receipt.journal.maze_seed
            /\ maze_proof.receipt.genuine
            /\ rows = GRID_SIZE
            /\ HashedBytes(maze_proof.grid_hash)
                  = RowMajor(maze_proof.grid_data, rows)
            /\ maze_proof.grid_hash
                  = Sha256(HostFlatten(maze_proof.grid_data))

\* the artifact of seed 2^32 - 1, whose grid has its start and goal open and
\* is not symmetric about the diagonal
C12_Witness ==
    /\ host.pc = "maze_proof"
    /\ host.maze_proof.maze_seed = U32(1, M)
    /\ host.maze_proof.grid_data[1][1] = 1
    /\ host.maze_proof.grid_data[GRID_SIZE - 2][GRID_SIZE - 2] = 1
    /\ \E i, j \in GuestGridIndex :
          host.maze_proof.grid_data[i][j] # host.maze_proof.grid_data[j][i]

(***************************************************************************)
(* SpecGuest: the path-verify guest on any input stream, whoever wrote it   *)
(***************************************************************************)
\* the move bytes written to the guest (WEST + 1 stands for every value
\* above 3), in sequences of every length up to MaxLen, and the walks of
\* MAX_MOVES moves and of one more
GuestMoveBytes == {NORTH, EAST, SOUTH, WEST + 1}
GuestMoveSeqs ==
    UNION { [1 .. n -> GuestMoveBytes] : n \in 0 .. MaxLen } \cup LongMoves

\* the image ids written to the guest: the maze-gen image and another one
ImageIds == {"MAZE_GEN_ID", "OTHER_ID"}

\* the grids written to the guest: the canonical one, with the start closed,
\* with the goal closed, with the border cell north of the start opened, and
\* with the start's column and the border row south of the goal opened
GuestGrids(seed) ==
    LET grid == RegenerateMazeGrid(seed)
    IN  { grid,
          [grid EXCEPT ![1][1] = 0],
          [grid EXCEPT ![GRID_SIZE - 2][GRID_SIZE - 2] = 0],
          [grid EXCEPT ![0][1] = 1],
          [i \in GuestGridIndex |-> [j \in GuestGridIndex |->
              IF \/ j = 1 /\ i >= 1
                 \/ i = GRID_SIZE - 1 /\ j \in 1 .. (GRID_SIZE - 2)
              THEN 1 ELSE grid[i][j]]] }

\* the journals written to the guest: committing to the grid that is written
\* with it, or to the canonical grid of the seed
GuestJournals(seed, grid_flat) ==
    { [maze_seed |-> seed, grid_hash |-> h] :
        h \in {Sha256(grid_flat), MazeGenJournal(seed).grid_hash} }

\* the receipts the prover may hold for an (image id, journal) pair: none
\* that is valid, or a valid one.  The maze-gen image has valid receipts only
\* for the journals it commits; another image may commit any journal.
AvailableReceipts(image_id, journal) ==
    { [image_id |-> image_id, journal |-> journal, genuine |-> FALSE] }
      \cup { [image_id |-> image_id, journal |-> journal, genuine |-> TRUE] :
               x \in { b \in {TRUE} :
                         image_id = "MAZE_GEN_ID"
                            => journal = MazeGenJournal(journal.maze_seed) } }

\* the guest at its entry
GuestEntry(stdin, receipt) ==
    [ pc |-> "start",
      stdin |-> stdin,
      assumption |-> receipt,
      pos |-> 0,
      maze_seed |-> U32Zero,
      grid |-> <<>>,
      journal |-> <<>> ]

InitGuest ==
    /\ host = [pc |-> "idle"]
    /\ guest = [pc |-> "idle"]
    /\ rp = [pc |-> "idle"]
    /\ gen = [pc |-> "idle"]
    /\ gen_hist = GenHistStart
    /\ lcg = [pc |-> "idle"]
    /\ worker = <<>>

\* the guest is started on an input stream of image id, journal, grid, move
\* count and as many moves
GuestLaunch ==
    /\ guest.pc = "idle"
    /\ \E seed \in PipelineSeeds :
          \E grid \in GuestGrids(seed) :
             LET grid_flat == HostFlatten(grid)
             IN  \E journal \in GuestJournals(seed, grid_flat),
                    image_id \in ImageIds :
                    \E receipt \in AvailableReceipts(image_id, journal) :
                       \E moves \in GuestMoveSeqs :
                          guest' = GuestEntry(<< image_id, journal, grid_flat,
                                                 Len(moves), moves >>, receipt)
    /\ UNCHANGED <<host, rp, gen, gen_hist, lcg, worker>>

NextGuest ==
    \/ GuestLaunch
    \/ GuestVerify
    \/ GuestHash
    \/ GuestCells
    \/ GuestReadMoves
    \/ ReplayMove
    \/ ReplayFinish
    \/ GuestCommit

SpecGuest == InitGuest /\ [][NextGuest]_vars

(***************************************************************************)
(* C13                                                                     *)
(***************************************************************************)
\* the exit the guest has taken, told from what it has read and run
ExitedOnHashMismatch == guest.pc = "done" /\ HashMismatch
ExitedOnCells ==
    /\ guest.pc = "done" /\ ~HashMismatch /\ guest.pos = 3
ExitedOnMoveCount ==
    /\ guest.pc = "done" /\ guest.pos = 4 /\ guest.stdin[4] > MAX_MOVES
ExitedAfterReplay == guest.pc = "done" /\ rp.pc = "returned"

\* C13: a guest that has ended normally has committed exactly one PathResult:
\* is_valid, 0 or 1, followed by the seed read from the stage-1 journal; this
\* holds on each of the four exits (is_valid is 0 on the first three and the
\* replay's verdict on the fourth), and nothing is committed before the exit.
C13_ExactlyOnePathResult ==
    /\ guest.pc \in {"start", "verified", "hash_ok", "cells_ok", "replaying",
                     "panicked"} => guest.journal = <<>>
    /\ guest.pc = "done" =>
          /\ Len(guest.journal) = 2
          /\ guest.journal[1] \in {0, 1}
          /\ guest.journal[2] = guest.stdin[2].maze_seed
          /\ \/ ExitedOnHashMismatch /\ guest.journal[1] = 0
             \/ ExitedOnCells /\ guest.journal[1] = 0
             \/ ExitedOnMoveCount /\ guest.journal[1] = 0
             \/ ExitedAfterReplay /\ (guest.journal[1] = 1 <=> rp.result)

\* the exit on the move count: one PathResult with is_valid 0, although the
\* first MAX_MOVES moves written solve the maze
C13_Witness ==
    /\ ExitedOnMoveCount
    /\ guest.journal = <<0, guest.stdin[2].maze_seed>>
    /\ rp.pc = "idle"
    /\ HasGoalPrefix(guest.grid, GRID_SIZE, guest.stdin[5])

(***************************************************************************)
(* C14                                                                     *)
(***************************************************************************)
\* grid_data has more than GRID_SIZE rows or a row of more than GRID_SIZE
\* entries
IsOversize(grid_data) ==
    \/ Cardinality(DOMAIN grid_data) > GRID_SIZE
    \/ \E i \in DOMAIN grid_data : Cardinality(DOMAIN grid_data[i]) > GRID_SIZE

\* C14 as claimed: verify_path_proof called with a genuine receipt and a
\* grid_data of more than GRID_SIZE rows, or with a row of more than
\* GRID_SIZE entries, never panics, and what it returns is Ok with
\* is_valid = false.
C14_Claimed_OversizeGridIsFalseVerdict ==
    (/\ host.pc \in {"proving", "panicked", "returned"}
     /\ host.maze_proof.receipt.genuine
     /\ IsOversize(host.maze_proof.grid_data))
        => /\ host.pc # "panicked"
           /\ host.pc = "returned" =>
                 /\ host.result.kind = "Ok"
                 /\ ~host.result.is_valid

(***************************************************************************)
(* C15                                                                     *)
(***************************************************************************)
\* the replay is about to process a move: moves are left and the goal has
\* not been reached
AboutToProcess ==
    /\ rp.pc = "loop"
    /\ rp.i < Len(rp.moves)
    /\ <<rp.row, rp.col>> # <<rp.end_pos, rp.end_pos>>

\* C15: when the move about to be processed is a byte outside {0,1,2,3}, the
\* step that processes it returns false at once: the position is left as it
\* was and the move is not counted as processed.
C15_BadDirectionRejected ==
    [][ (AboutToProcess /\ rp.moves[rp.i + 1] \notin {NORTH, EAST, SOUTH, WEST})
          => /\ rp'.pc = "returned"
             /\ ~rp'.result
             /\ rp'.row = rp.row
             /\ rp'.col = rp.col
             /\ rp'.i = rp.i
             /\ ~rp'.has_reached_end ]_vars

\* a bad direction byte rejected after some accepted moves, at a position
\* whose northern neighbour is a path cell (the byte reduced modulo 4 would
\* have been a legal NORTH)
C15_Witness ==
    /\ rp.pc = "returned"
    /\ ~rp.result
    /\ rp.i >= 1
    /\ rp.i < Len(rp.moves)
    /\ rp.moves[rp.i + 1] = WEST + 1
    /\ <<rp.row, rp.col>> = PositionAfter(rp.moves, rp.i)
    /\ rp.row >= 1
    /\ rp.grid[rp.row - 1][rp.col] = 1

(***************************************************************************)
(* C16                                                                     *)
(***************************************************************************)
\* where the move about to be processed leads, in plain integers
Target ==
    LET d == rp.moves[rp.i + 1]
    IN  IF d = NORTH THEN <<rp.row - 1, rp.col>>
        ELSE IF d = EAST THEN <<rp.row, rp.col + 1>>
        ELSE IF d = SOUTH THEN <<rp.row + 1, rp.col>>
        ELSE <<rp.row, rp.col - 1>>

InsideGrid(p) ==
    /\ p[1] >= 0 /\ p[1] < rp.grid_size
    /\ p[2] >= 0 /\ p[2] < rp.grid_size

\* the indices the loop body computes for the move about to be processed
ComputedIndex ==
    LET d == rp.moves[rp.i + 1]
    IN  << I32AsUsize(rp.row + ROW_DELTAS[d + 1]),
           I32AsUsize(rp.col + COL_DELTAS[d + 1]) >>

\* C16: when the move about to be processed is a direction, the indices
\* computed for it are the target position if that lies inside the grid, and
\* otherwise one of them is at least grid_size (also for NORTH from row 0 and
\* WEST from column 0); a move to a target outside the grid is rejected at
\* once, with the position unchanged, so the grid is only ever indexed
\* inside [0, size) x [0, size).
C16_OutOfBoundsRejected ==
    [][ (AboutToProcess /\ rp.moves[rp.i + 1] \in {NORTH, EAST, SOUTH, WEST})
          => /\ InsideGrid(Target) => ComputedIndex = Target
             /\ ~InsideGrid(Target) =>
                   /\ \/ ComputedIndex[1] >= rp.grid_size
                      \/ ComputedIndex[2] >= rp.grid_size
                   /\ rp'.pc = "returned"
                   /\ ~rp'.result
                   /\ <<rp'.row, rp'.col, rp'.i>> = <<rp.row, rp.col, rp.i>>
             /\ (rp'.pc = "loop" /\ rp'.i = rp.i + 1) =>
                   /\ InsideGrid(Target)
                   /\ <<rp'.row, rp'.col>> = Target ]_vars

\* NORTH from row 0, reached through an opened border cell, rejected
C16_Witness ==
    /\ rp.pc = "returned"
    /\ ~rp.result
    /\ rp.row = 0
    /\ rp.i >= 1
    /\ rp.i < Len(rp.moves)
    /\ rp.moves[rp.i + 1] = NORTH

(***************************************************************************)
(* C17                                                                     *)
(***************************************************************************)
\* the bytes of the claimed grid, as written to the guest, at the canonical
\* start (1,1) and goal (size-2, size-2)
ClaimedStartByte == guest.stdin[3][1 * GRID_SIZE + 1]
ClaimedGoalByte == guest.stdin[3][(GRID_SIZE - 2) * GRID_SIZE + (GRID_SIZE - 2)]

\* the guest is past its test of the start and goal cells
PastCellsCheck == guest.pc \in {"cells_ok", "replaying", "done"}

\* C17: when the claimed grid has passed the hash check and its start (1,1)
\* or its goal (size-2, size-2) is not a path cell, the guest ends with
\* is_valid = 0, having read the input only up to the grid (neither the move
\* count nor the moves), and the replay machine is never entered.
C17_ClosedStartOrGoalIsFalseVerdict ==
    (/\ PastCellsCheck
     /\ ~HashMismatch
     /\ (ClaimedStartByte # 1 \/ ClaimedGoalByte # 1))
        => /\ guest.pc = "done"
           /\ guest.journal = <<0, guest.stdin[2].maze_seed>>
           /\ guest.pos = 3
           /\ rp.pc = "idle"

\* a grid with an open start and a closed goal, committed to by the journal
\* and verified, rejected with moves waiting in the input
C17_Witness ==
    /\ guest.pc = "done"
    /\ ~HashMismatch
    /\ ClaimedStartByte = 1
    /\ ClaimedGoalByte = 0
    /\ guest.stdin[4] > 0
    /\ guest.pos = 3
    /\ guest.journal[1] = 0

(***************************************************************************)
(* C18                                                                     *)
(***************************************************************************)
\* what the canonical grid of a rows x cols maze holds at (i, j), read off
\* the cell structure: a cell centre, the position between two cells that are
\* neighbours in a row or in a column, or anything else
ExpectedByte(mz, i, j) ==
    LET r == (i - 1) \div 2
        c == (j - 1) \div 2
    IN  IF i % 2 = 1 /\ j % 2 = 1
        THEN IF r < mz.rows /\ c < mz.cols THEN 1 ELSE 0
        ELSE IF i % 2 = 1 /\ j % 2 = 0
        THEN IF /\ r < mz.rows /\ j >= 2 /\ j <= 2 * mz.cols - 2
                /\ ~mz.cells[r][j \div 2 - 1].walls[EAST]
             THEN 1 ELSE 0
        ELSE IF i % 2 = 0 /\ j % 2 = 1
        THEN IF /\ c < mz.cols /\ i >= 2 /\ i <= 2 * mz.rows - 2
                /\ ~mz.cells[i \div 2 - 1][c].walls[SOUTH]
             THEN 1 ELSE 0
        ELSE 0

\* C18: in every state of a generation the canonical grid is the encoding of
\* the cells: (2r+1, 2c+1) is path for every cell of the rows x cols maze,
\* the position between two adjacent cells is path iff the wall between them
\* is cleared (on both of its sides), and every other position is wall.
C18_GridEncodesCells ==
    gen.pc \in {"loop", "done"} =>
        LET grid == ToBinaryGrid(gen)
        IN  /\ \A i, j \in GridIndex : grid[i][j] = ExpectedByte(gen, i, j)
            /\ \A cell \in MazeCells(gen) :
                  /\ IsCell(gen, cell[1], cell[2] + 1) =>
                        gen.cells[cell[1]][cell[2]].walls[EAST]
                           = gen.cells[cell[1]][cell[2] + 1].walls[WEST]
                  /\ IsCell(gen, cell[1] + 1, cell[2]) =>
                        gen.cells[cell[1]][cell[2]].walls[SOUTH]
                           = gen.cells[cell[1] + 1][cell[2]].walls[NORTH]

\* a finished maze smaller than the array in one dimension, with a cleared
\* and a standing wall between neighbours in a row and in a column
C18_Witness ==
    /\ gen.pc = "done"
    /\ gen.rows = MAX_MAZE_ROWS
    /\ gen.cols = MAX_MAZE_COLS - 1
    /\ \E a, b \in MazeCells(gen) :
          /\ ~gen.cells[a[1]][a[2]].walls[EAST]
          /\ gen.cells[b[1]][b[2]].walls[EAST] /\ b[2] + 1 < gen.cols
    /\ \E a, b \in MazeCells(gen) :
          /\ ~gen.cells[a[1]][a[2]].walls[SOUTH]
          /\ gen.cells[b[1]][b[2]].walls[SOUTH] /\ b[1] + 1 < gen.rows

(***************************************************************************)
(* C19                                                                     *)
(***************************************************************************)
\* the walls of a cell that lead out of the rows x cols maze
OutwardWalls(mz, cell) ==
    { d \in Dirs : \/ d = NORTH /\ cell[1] = 0
                   \/ d = SOUTH /\ cell[1] = mz.rows - 1
                   \/ d = WEST /\ cell[2] = 0
                   \/ d = EAST /\ cell[2] = mz.cols - 1 }

\* C19: in every state of a generation, for every seed and size, no wall
\* that leads out of the R x C maze is cleared, no cell outside the maze is
\* visited, and row 0, row 2R, column 0 and column 2C of the canonical grid
\* hold only walls.
C19_BorderIsWall ==
    gen.pc \in {"loop", "done"} =>
        LET grid == ToBinaryGrid(gen)
            lastRow == 2 * gen.rows
            lastCol == 2 * gen.cols
        IN  /\ \A cell \in MazeCells(gen) : \A d \in OutwardWalls(gen, cell) :
                  gen.cells[cell[1]][cell[2]].walls[d]
            /\ VisitedCells(gen) \subseteq MazeCells(gen)
            /\ \A i \in 0 .. lastRow : grid[i][0] = 0 /\ grid[i][lastCol] = 0
            /\ \A j \in 0 .. lastCol : grid[0][j] = 0 /\ grid[lastRow][j] = 0

\* a finished maze that does not fill the cells array: every cell on its
\* edge was visited, next to array cells that lie outside the maze
C19_Witness ==
    /\ gen.pc = "done"
    /\ gen.rows = MAX_MAZE_ROWS - 1
    /\ gen.cols = MAX_MAZE_COLS - 1
    /\ MazeCells(gen) = VisitedCells(gen)
    /\ gen_hist.pops_moved > 0

(***************************************************************************)
(* C20                                                                     *)
(***************************************************************************)
\* every move is legal on the grid and the walk never stands on the goal
LegalWalkOffGoal(grid, size, moves) ==
    \A k \in 1 .. Len(moves) :
        /\ MoveAccepted(grid, size, moves, k)
        /\ PositionAfter(moves, k) # <<size - 2, size - 2>>

\* the sequences of fewer than MaxLen directions
DirectionSeqs == UNION { [1 .. n -> Dirs] : n \in 0 .. (MaxLen - 1) }

\* C20: verify_path_proof called with an unmodified artifact and at most
\* MAX_MOVES moves that are all legal and never stand on the goal returns
\* is_valid = false; and on the grid of every artifact that
\* generate_maze_proof returns, the guest's replay of such a sequence (the
\* moves followed by the zeros that fill its buffer) is false.
C20_PartialSolutionIsFalse ==
    /\ (/\ host.pc = "returned"
        /\ host.maze_proof.receipt.genuine
        /\ Len(host.moves) <= MAX_MOVES
        /\ DOMAIN host.maze_proof.grid_data = 0 .. GRID_SIZE - 1
        /\ LegalWalkOffGoal(host.maze_proof.grid_data, GRID_SIZE, host.moves)
        /\ host.maze_proof.grid_data
              = RegenerateMazeGrid(host.maze_proof.maze_seed))
          => /\ host.result.kind = "Ok"
             /\ ~host.result.is_valid
    /\ host.pc = "maze_proof" =>
          \A moves \in DirectionSeqs :
             LegalWalkOffGoal(host.maze_proof.grid_data, GRID_SIZE, moves)
                => ~VerifyMazeSolution(MovesBuffer(Len(moves), moves),
                                       host.maze_proof.grid_data,
                                       GRID_SIZE, 1, GRID_SIZE - 2)

\* a legal walk that stops short of the goal, verified as false after the
\* guest's replay went on into the zeros behind the moves
C20_Witness ==
    /\ host.pc = "returned"
    /\ host.result.kind = "Ok"
    /\ ~host.result.is_valid
    /\ host.maze_proof.grid_data = RegenerateMazeGrid(host.maze_proof.maze_seed)
    /\ Len(host.moves) >= 2
    /\ Len(host.moves) < MAX_MOVES
    /\ LegalWalkOffGoal(host.maze_proof.grid_data, GRID_SIZE, host.moves)
    /\ rp.pc = "returned"
    /\ rp.i > Len(host.moves)

(***************************************************************************)
(* C21                                                                     *)
(***************************************************************************)
\* env::verify of the (image id, journal) pair the guest read succeeds
EnvVerifySucceeds ==
    /\ guest.assumption.genuine
    /\ guest.assumption.image_id = guest.stdin[1]
    /\ guest.assumption.journal = guest.stdin[2]

\* C21: the path-verify guest has committed something only if env::verify of
\* the (image id, journal) pair it read has succeeded; when that verification
\* fails the guest is aborted right there with an empty journal, no grid read
\* and no replay started, and verify_path_proof returns an Err; and the guest
\* started by verify_path_proof always has the receipt of the maze proof as
\* its assumption, with the maze-gen image id and that receipt's journal
\* written as its first two inputs.
C21_CommitOnlyAfterVerify ==
    /\ (guest.pc # "idle" /\ guest.journal # <<>>) => EnvVerifySucceeds
    /\ (guest.pc \notin {"idle", "start"} /\ ~EnvVerifySucceeds) =>
          /\ guest.pc = "panicked"
          /\ guest.journal = <<>>
          /\ guest.pos = 2
          /\ rp.pc = "idle"
          /\ host.pc = "returned" => host.result.kind = "Err"
    /\ (host.pc \in {"proving", "returned"} /\ guest.pc # "idle") =>
          /\ guest.assumption = host.maze_proof.receipt
          /\ guest.stdin[1] = "MAZE_GEN_ID"
          /\ guest.stdin[2] = host.maze_proof.receipt.journal

\* verify_path_proof has returned an Err for a receipt that is no valid proof
\* although its journal commits to the claimed grid and the moves solve it
C21_Witness ==
    /\ host.pc = "returned"
    /\ host.result.kind = "Err"
    /\ guest.pc = "panicked"
    /\ guest.journal = <<>>
    /\ ~guest.assumption.genuine
    /\ guest.stdin[2].grid_hash = Sha256(guest.stdin[3])
    /\ DOMAIN host.maze_proof.grid_data = 0 .. GRID_SIZE - 1
    /\ HasGoalPrefix(host.maze_proof.grid_data, GRID_SIZE, host.moves)

(***************************************************************************)
(* SpecRng: two SimpleLCG objects, constructed side by side and drawn from  *)
(* in any interleaving                                                     *)
(***************************************************************************)
\* the number of draws made from each generator
RngDraws == 3

\* the seeds the generators are constructed with
RngSeeds == SpecialSeeds \cup {U32Zero}

\* the pairs of seeds: the same seed twice, or 0 and 1
SeedPairs == { <<seed, seed>> : seed \in RngSeeds } \cup { <<U32Zero, U32One>> }

\* the calls made: choice_index(len) for the neighbour counts of the
\* backtracker, randint(a, b) for 5..10 (the unit test), for one-value
\* ranges and for the whole of usize
Calls ==
    { [fn |-> "choice_index", a |-> U32(0, len), b |-> U32Zero] :
         len \in 1 .. Cardinality(Dirs) }
      \cup { [fn |-> "randint", a |-> ab[1], b |-> ab[2]] :
                ab \in { <<U32(0, 5), U32(0, 10)>>,
                         <<U32Zero, U32Zero>>,
                         <<USIZE_MAX, USIZE_MAX>>,
                         <<U32Zero, USIZE_MAX>> } }

\* one call on a generator in the given state: the state it leaves and what
\* it returns
LcgCall(state, call, overflow_checks) ==
    IF call.fn = "choice_index"
    THEN LET draw == LcgChoiceIndex(state, call.a.low)
         IN  [state |-> draw.state, kind |-> "value",
              value |-> U32(0, draw.idx)]
    ELSE LcgRandint(state, call.a, call.b, overflow_checks)

\* variant: the state is shared by all generators
LcgDrawStep_SharedState(l, g, call) ==
    LET r == LcgCall(l.state[g], call, l.overflow_checks)
    IN  [l EXCEPT !.state = [h \in {1, 2} |-> r.state],
                  !.outs[g] = Append(@, [kind |-> r.kind, value |-> r.value]),
                  !.calls = IF Len(l.outs[g]) < Len(l.calls) THEN @
                            ELSE Append(@, call)]

\* generator g makes its next call: its own state advances, the return value
\* is logged, and so is the call if g is the first to make it
LcgDrawStep(l, g, call) ==
    LET r == LcgCall(l.state[g], call, l.overflow_checks)
    IN  [l EXCEPT !.state[g] = r.state,
                  !.outs[g] = Append(@, [kind |-> r.kind, value |-> r.value]),
                  !.calls = IF Len(l.outs[g]) < Len(l.calls) THEN @
                            ELSE Append(@, call)]

InitRng ==
    /\ lcg = [pc |-> "idle"]
    /\ worker = <<>>
    /\ gen = [pc |-> "idle"]
    /\ gen_hist = GenHistStart
    /\ rp = [pc |-> "idle"]
    /\ host = [pc |-> "idle"]
    /\ guest = [pc |-> "idle"]

\* SimpleLCG::new, twice, in a build with or without overflow checks
LcgConstruct ==
    /\ lcg.pc = "idle"
    /\ \E seeds \in SeedPairs, overflow_checks \in BOOLEAN :
          lcg' = [ pc |-> "ready",
                   seed |-> seeds,
                   overflow_checks |-> overflow_checks,
                   state |-> [g \in {1, 2} |-> LcgNew(seeds[g])],
                   calls |-> <<>>,
                   outs |-> [g \in {1, 2} |-> <<>>] ]
    /\ UNCHANGED <<gen, gen_hist, rp, host, guest, worker>>

\* the k-th call on either generator has the arguments of the k-th call on
\* the other; a generator whose call panicked is not called again
LcgDraw ==
    /\ lcg.pc = "ready"
    /\ \E g \in {1, 2} :
          LET k == Len(lcg.outs[g]) + 1
          IN  /\ k <= RngDraws
              /\ k > 1 => lcg.outs[g][k - 1].kind = "value"
              /\ \E call \in (IF k <= Len(lcg.calls) THEN {lcg.calls[k]}
                              ELSE Calls) :
                    lcg' = LcgDrawStep(lcg, g, call)
    /\ UNCHANGED <<gen, gen_hist, rp, host, guest, worker>>

NextRng == LcgConstruct \/ LcgDraw

SpecRng == InitRng /\ [][NextRng]_vars

ReturnedInRange(g, k) ==
    LET call == lcg.calls[k]
        out == lcg.outs[g][k]
    IN  /\ out.kind = "value"
        /\ call.fn = "choice_index" =>
              /\ ULeq(U32Zero, out.value)
              /\ out.value # call.a
              /\ ULeq(out.value, call.a)
        /\ call.fn = "randint" =>
              /\ ULeq(call.a, out.value)
              /\ ULeq(out.value, call.b)

\* C23 as claimed: every call of choice_index(len) with len >= 1 returns a
\* value in [0, len) and every call of randint(a, b) with a <= b returns a
\* value in [a, b], for every seed and after any number of earlier calls.
C23_Claimed_DrawsInRange ==
    lcg.pc = "ready" =>
        \A g \in {1, 2} : \A k \in 1 .. Len(lcg.outs[g]) : ReturnedInRange(g, k)

(***************************************************************************)
(* C24                                                                     *)
(***************************************************************************)
\* C24: a generator constructed with seed 0 and one constructed with seed 1
\* start in the same state, return the same to every successive call made
\* with the same arguments and are in the same state after equally many
\* calls; and Maze::generate builds the same maze, with the same canonical
\* grid, from seed 0 as from seed 1, for every size.
C24_SeedZeroIsSeedOne ==
    (lcg.pc = "ready" /\ lcg.seed = <<U32Zero, U32One>>) =>
        /\ \A k \in 1 .. Len(lcg.calls) :
              (k <= Len(lcg.outs[1]) /\ k <= Len(lcg.outs[2]))
                 => lcg.outs[1][k] = lcg.outs[2][k]
        /\ Len(lcg.outs[1]) = Len(lcg.outs[2]) => lcg.state[1] = lcg.state[2]
        /\ lcg.calls = <<>> =>
              /\ lcg.state = <<U32One, U32One>>
              /\ \A rows \in 1 .. MAX_MAZE_ROWS, cols \in 1 .. MAX_MAZE_COLS :
                    LET maze0 == Generate(rows, cols, U32Zero)
                        maze1 == Generate(rows, cols, U32One)
                    IN  /\ maze0.cells = maze1.cells
                        /\ maze0.rng = maze1.rng
                        /\ ToBinaryGrid(maze0) = ToBinaryGrid(maze1)

\* the generators of seeds 0 and 1 have made all their calls, the one of seed
\* 1 first, and a value other than 0 was returned
C24_Witness ==
    /\ lcg.pc = "ready"
    /\ lcg.seed = <<U32Zero, U32One>>
    /\ Len(lcg.outs[1]) = RngDraws
    /\ Len(lcg.outs[2]) = RngDraws
    /\ lcg.outs[1] = lcg.outs[2]
    /\ \E k \in 1 .. RngDraws :
          /\ lcg.calls[k].fn = "choice_index"
          /\ lcg.outs[1][k].value # U32Zero

(***************************************************************************)
(* C25                                                                     *)
(***************************************************************************)
\* the call asks for more rows or columns than the cells array has
TooLarge == gen.rows > MAX_MAZE_ROWS \/ gen.cols > MAX_MAZE_COLS

\* C25: Maze::generate called with rows > MAX_MAZE_ROWS or cols >
\* MAX_MAZE_COLS panics at its first statement and goes no further: there is
\* no cells array, no RNG and no stack, no draw was made, no loop iteration
\* was run and no maze is returned; a call within the bounds does not panic
\* there.
C25_OversizeRejectedAtEntry ==
    /\ (gen.pc \notin {"idle", "call"} /\ TooLarge) =>
          /\ gen.pc = "panic"
          /\ DOMAIN gen = {"pc", "rows", "cols"}
          /\ gen_hist.draws = 0
          /\ gen_hist.pops_kept = 0
          /\ gen_hist.pops_moved = 0
          /\ gen_hist.last = "start"
    /\ (gen.pc \notin {"idle", "call"} /\ ~TooLarge) =>
          /\ gen.pc # "panic"
          /\ gen.cells[0][0].visited

\* a call rejected for its columns alone
C25_Witness ==
    /\ gen.pc = "panic"
    /\ gen.rows = 1
    /\ gen.cols = MAX_MAZE_COLS + 1
    /\ gen_hist.draws = 0

(***************************************************************************)
(* SpecTwice: generate_maze_proof, then verify_path_proof called twice      *)
(* with the same MazeProof and the same moves                              *)
(***************************************************************************)
\* the moves handed to both calls: walks east and south of every length up to
\* one more than MAX_MOVES, a single NORTH, a single byte that is no direction
TwiceMoves ==
    UNION { [1 .. n -> {EAST, SOUTH}] : n \in 0 .. (MAX_MOVES + 1) }
      \cup { <<NORTH>>, <<WEST + 1>> }

InitTwice ==
    /\ host = [pc |-> "idle"]
    /\ guest = [pc |-> "idle"]
    /\ rp = [pc |-> "idle"]
    /\ gen = [pc |-> "idle"]
    /\ gen_hist = GenHistStart
    /\ lcg = [pc |-> "idle"]
    /\ worker = <<>>

\* the first call, verify_path_proof(maze_proof, moves, None), up to the
\* start of the guest
HostVerifyFirst ==
    /\ host.pc = "maze_proof"
    /\ host.maze_proof.maze_seed \in PipelineSeeds
    /\ \E grid_data \in ClaimedGrids(host.maze_proof.grid_data) :
          \E receipt \in ClaimedReceipts(host.maze_proof, grid_data) :
             LET maze_proof == [host.maze_proof EXCEPT !.grid_data = grid_data,
                                                       !.receipt = receipt]
             IN  \E moves \in TwiceMoves :
                    /\ host' = HostCallStep(maze_proof, moves, "None")
                    /\ guest' = IF FlattenPanics(grid_data) THEN guest
                                ELSE GuestStart(maze_proof, moves)
    /\ UNCHANGED <<rp, gen, gen_hist, lcg, worker>>

\* variant: the moves were used up by the first call
HostRecallStep_MovesConsumed(h, receipt_kind_override) ==
    LET call == HostCallStep(h.maze_proof, <<>>, receipt_kind_override)
    IN  [ pc |-> call.pc, maze_proof |-> call.maze_proof, moves |-> call.moves,
          receipt_kind_override |-> call.receipt_kind_override,
          receipt_kind |-> call.receipt_kind,
          opts |-> call.opts,
          result |-> call.result,
          first |-> [pc |-> h.pc, moves |-> h.moves, result |-> h.result] ]

\* the second call, with the MazeProof and the moves of the first: how the
\* first call ended is kept next to it
HostRecallStep(h, receipt_kind_override) ==
    LET call == HostCallStep(h.maze_proof, h.moves, receipt_kind_override)
    IN  [ pc |-> call.pc, maze_proof |-> call.maze_proof, moves |-> call.moves,
          receipt_kind_override |-> call.receipt_kind_override,
          receipt_kind |-> call.receipt_kind,
          opts |-> call.opts,
          result |-> call.result,
          first |-> [pc |-> h.pc, moves |-> h.moves, result |-> h.result] ]

\* the second call of verify_path_proof, with any override: a new guest is
\* started
HostVerifyAgain ==
    /\ host.pc \in {"returned", "panicked"}
    /\ "first" \notin DOMAIN host
    /\ \E receipt_kind_override \in ReceiptKindOptions :
          host' = HostRecallStep(host, receipt_kind_override)
    /\ guest' = IF host'.pc = "panicked" THEN guest
                ELSE GuestStart(host'.maze_proof, host'.moves)
    /\ rp' = [pc |-> "idle"]
    /\ UNCHANGED <<gen, gen_hist, lcg, worker>>

NextTwice ==
    \/ HostGenerateMazeProof
    \/ HostVerifyFirst
    \/ GuestVerify
    \/ GuestHash
    \/ GuestCells
    \/ GuestReadMoves
    \/ ReplayMove
    \/ ReplayFinish
    \/ GuestCommit
    \/ HostDecode
    \/ HostVerifyAgain

SpecTwice == InitTwice /\ [][NextTwice]_vars

(***************************************************************************)
(* C26                                                                     *)
(***************************************************************************)
\* the verdict as a function of the MazeProof and the moves: the flattened
\* grid hashes to the hash in the receipt's journal, its start and goal are
\* path cells, and the replay of the first MAX_MOVES moves at most, in the
\* guest's buffer, reaches the goal
VerdictOf(maze_proof, moves) ==
    LET grid_flat == HostFlatten(maze_proof.grid_data)
        grid == [i \in GuestGridIndex |-> [j \in GuestGridIndex |->
                    grid_flat[i * GRID_SIZE + j]]]
        move_count == MinOf(Len(moves), MAX_MOVES)
    IN  /\ Sha256(grid_flat) = maze_proof.receipt.journal.grid_hash
        /\ grid[1][1] = 1
        /\ grid[GRID_SIZE - 2][GRID_SIZE - 2] = 1
        /\ VerifyMazeSolution(MovesBuffer(move_count, moves), grid,
                              GRID_SIZE, 1, GRID_SIZE - 2)

\* the second call has ended
SecondCallEnded ==
    /\ host.pc \in {"returned", "panicked"}
    /\ "first" \in DOMAIN host

C27_ReceiptKindDefaultsToMazeProof ==
    (host.pc \in {"proving", "returned"}) =>
        LET expected == IF host.receipt_kind_override = "None"
                        THEN host.maze_proof.receipt_kind
                        ELSE host.receipt_kind_override
        IN  /\ host.receipt_kind = expected
            /\ host.opts = ProverOptsFor(expected)
            /\ expected \in ReceiptKinds
            /\ (host.pc = "returned" /\ host.result.kind = "Ok") =>
                  host.result.receipt_kind = expected

\* a Groth16 path proof returned for a succinct maze proof, and before it a
\* succinct one
C27_Witness ==
    /\ SecondCallEnded
    /\ host.result.kind = "Ok"
    /\ host.maze_proof.receipt_kind = "Succinct"
    /\ host.receipt_kind_override = "Groth16"
    /\ host.result.receipt_kind = "Groth16"
    /\ host.first.result.receipt_kind = "Succinct"


(***************************************************************************)
(* C28                                                                     *)
(***************************************************************************)
\* the moves the guest was given: the first move_count entries of its buffer
GivenMoves == IF guest.stdin[4] = 0 THEN <<>> ELSE guest.stdin[5]

\* C28 (as claimed): a guest that has replayed commits the verdict of the
\* replay state machine run on exactly the move_count moves it was given, on
\* every grid that passed the hash and the start/goal checks; the entries of
\* the buffer behind the given moves have no influence on it.
C28_Claimed_TailHasNoInfluence ==
    ExitedAfterReplay =>
       (guest.journal[1] = 1
          <=> VerifyMazeSolution(GivenMoves, guest.grid, GRID_SIZE, 1,
                                 GRID_SIZE - 2))


(***************************************************************************)
(* C29                                                                     *)
(***************************************************************************)
\* the guest has read the move count and gone on from there
MoveCountRead ==
    \/ guest.pc = "replaying"
    \/ guest.pc = "done" /\ guest.pos >= 4

\* C29: a guest that has read a move count above MAX_MOVES has committed
\* is_valid = 0 with the seed, has read no move byte (its input position is
\* still the move count) and has not entered the replay; a guest that has
\* read a move count of exactly MAX_MOVES has read all MAX_MOVES moves and
\* has entered the replay with exactly them.
C29_MoveCountBound ==
    /\ guest.pc # "idle" /\ guest.stdin[4] > MAX_MOVES =>
          /\ guest.pc # "replaying"
          /\ rp.pc = "idle"
          /\ guest.pos <= 4
          /\ MoveCountRead =>
                /\ guest.journal = <<0, guest.maze_seed>>
                /\ guest.maze_seed = guest.stdin[2].maze_seed
    /\ MoveCountRead /\ guest.stdin[4] = MAX_MOVES =>
          /\ guest.pos = 5
          /\ rp.pc # "idle"
          /\ rp.moves = guest.stdin[5]
          /\ guest.pc = "done" =>
                /\ rp.pc = "returned"
                /\ guest.journal[1] = 1 <=> rp.result

\* a guest that was given exactly MAX_MOVES moves has replayed them and has
\* committed is_valid = 1
C29_Witness ==
    /\ ExitedAfterReplay
    /\ guest.stdin[4] = MAX_MOVES
    /\ guest.journal[1] = 1


(***************************************************************************)
(* C30                                                                     *)
(***************************************************************************)
\* the artifacts generate_maze_proof returns for the seeds that are handed on
PipelineArtifacts ==
    { GenerateMazeProof(seed, receipt_kind) :
         seed \in PipelineSeeds, receipt_kind \in ReceiptKinds }

\* verify_path_proof was called with the artifact as generate_maze_proof
\* returned it, and has returned
CalledUnmodified ==
    /\ host.pc = "returned"
    /\ host.maze_proof.maze_seed \in PipelineSeeds
    /\ host.maze_proof \in PipelineArtifacts

\* neither the commitment-mismatch branch nor the start/goal branch is taken,
\* and a verdict that is returned is the one committed after the replay
NoEarlyExit ==
    /\ ~HashMismatch
    /\ ~ExitedOnCells
    /\ host.result.kind = "Ok"
    /\ ExitedAfterReplay

\* the verdict returned is the replay's verdict for the moves of the call on
\* the grid generated from the artifact's seed
VerdictIsReplayOfMoves ==
    host.result.is_valid
       <=> VerifyMazeSolution(host.moves,
                              RegenerateMazeGrid(host.maze_proof.maze_seed),
                              GRID_SIZE, 1, GRID_SIZE - 2)

\* C30 (as claimed): for an unmodified artifact the two rejecting branches
\* are never taken and the verdict equals the replay machine's verdict on the
\* grid generated from the artifact's seed, for every move sequence.
C30_Claimed_VerdictIsReplay ==
    CalledUnmodified =>
       /\ NoEarlyExit
       /\ VerdictIsReplayOfMoves

\* C30 (amended): for an unmodified artifact the two rejecting branches are
\* never taken, whatever the moves; and for at most MAX_MOVES moves the
\* verdict equals the replay machine's verdict for these moves on the grid
\* generated from the artifact's seed.
C30_UnmodifiedArtifactVerdict ==
    CalledUnmodified =>
       /\ NoEarlyExit
       /\ Len(host.moves) <= MAX_MOVES => VerdictIsReplayOfMoves

\* an unmodified artifact and a solution of at most MAX_MOVES moves, verified
\* as true
C30_Witness ==
    /\ CalledUnmodified
    /\ Len(host.moves) <= MAX_MOVES
    /\ host.result.is_valid
    /\ VerdictIsReplayOfMoves


(***************************************************************************)
(* C31                                                                     *)
(***************************************************************************)
\* C31 (as claimed): the state of a generator is never 0, for every seed and
\* after any number of advances.
C31_Claimed_StateNeverZero ==
    lcg.pc = "ready" => \A g \in {1, 2} : lcg.state[g] # U32Zero


(***************************************************************************)
(* C32                                                                     *)
(***************************************************************************)
\* (state * A) mod M by Schrage's decomposition M = A * q + r, which needs no
\* wide product: the state is first reduced modulo M (2^31 = M + 1)
SchrageAdvance(state) ==
    LET q == M \div A
        r == M % A
        x == (state.top + (state.low % M)) % M
        d == A * (x % q) - r * (x \div q)
    IN  U32(0, IF d < 0 THEN d + M ELSE d)

\* the states advance is applied to besides the reachable ones
AdvanceSamples == Seeds \cup { U32(1, s.low) : s \in Seeds }

\* the product (state as u64) * A is below 2^48, the remainder is computed
\* exactly and is in [0, M - 1]
AdvanceExact(state) ==
    /\ WideMul(state, A).hi < 2^17
    /\ LcgAdvance(state) = SchrageAdvance(state)
    /\ LcgAdvance(state).top = 0
    /\ LcgAdvance(state).low \in 0 .. (M - 1)

AdvanceExactOnSamples == \A state \in AdvanceSamples : AdvanceExact(state)

\* the state of each generator is as construction or a call has left it
StateAsLeft ==
    lcg.pc = "ready" =>
       \A g \in {1, 2} :
          /\ AdvanceExact(lcg.state[g])
          /\ Len(lcg.outs[g]) > 0 =>
                /\ lcg.state[g].top = 0
                /\ lcg.state[g].low \in 0 .. (M - 1)

\* C32: advance computes state' = (state * 48271) mod (2^31 - 1) exactly for
\* every 32-bit state: the 64-bit product does not overflow, and after an
\* advance the state is in [0, 2^31 - 2] and fits in 32 bits.  Every call on
\* a generator advances its state once, exactly.
C32_AdvanceIsExact ==
    /\ [](AdvanceExactOnSamples /\ StateAsLeft)
    /\ [][ (lcg.pc = "ready" /\ lcg'.pc = "ready") =>
              \A g \in {1, 2} :
                 \/ lcg'.state[g] = lcg.state[g]
                      /\ lcg'.outs[g] = lcg.outs[g]
                 \/ lcg'.state[g] = SchrageAdvance(lcg.state[g])
                      /\ Len(lcg'.outs[g]) = Len(lcg.outs[g]) + 1 ]_vars

\* a generator constructed with seed 2^32 - 1 has advanced once
C32_Witness ==
    /\ lcg.pc = "ready"
    /\ lcg.seed[1] = U32(1, M)
    /\ Len(lcg.outs[1]) = 1
    /\ lcg.state[1] = SchrageAdvance(U32(1, M))
    /\ lcg.state[1] # U32Zero


(***************************************************************************)
(* SpecChoices: recursive_backtracker with every choice of neighbour, run   *)
(* to its end                                                               *)
(***************************************************************************)
\* variant: the chosen neighbour is not marked visited
CarveChosen_NoMark(g, idx) ==
    LET row == g.current[1]
        col == g.current[2]
        neighbors == GetUnvisitedNeighbors(g, row, col)
        chosen == neighbors[idx + 1]
        dir == chosen[1]
        nr == chosen[2]
        nc == chosen[3]
        cleared == [g.cells EXCEPT ![row][col].walls[dir] = FALSE]
        marked == [cleared EXCEPT ![nr][nc].walls[OppositeDir(dir)] = FALSE]
    IN  IF g.stack_len >= STACK_SLOTS
        THEN [g EXCEPT !.cells = marked, !.pc = "panic"]
        ELSE [g EXCEPT !.cells = marked,
                       !.stack[g.stack_len] = <<nr, nc>>,
                       !.stack_len = g.stack_len + 1,
                       !.current = <<nr, nc>>]

\* the `if neighbor_count > 0` branch with the index choice_index returned:
\* clear both walls, mark, push, move the cursor
CarveChosen(g, idx) ==
    LET row == g.current[1]
        col == g.current[2]
        neighbors == GetUnvisitedNeighbors(g, row, col)
        chosen == neighbors[idx + 1]
        dir == chosen[1]
        nr == chosen[2]
        nc == chosen[3]
        cleared == [g.cells EXCEPT ![row][col].walls[dir] = FALSE]
        marked == [cleared EXCEPT ![nr][nc].walls[OppositeDir(dir)] = FALSE,
                                  ![nr][nc].visited = TRUE]
    IN  IF g.stack_len >= STACK_SLOTS
        THEN [g EXCEPT !.cells = marked, !.pc = "panic"]
        ELSE [g EXCEPT !.cells = marked,
                       !.stack[g.stack_len] = <<nr, nc>>,
                       !.stack_len = g.stack_len + 1,
                       !.current = <<nr, nc>>]

InitChoices ==
    /\ \E rows \in RowArgs, cols \in ColArgs :
          /\ gen = [pc |-> "call", rows |-> rows, cols |-> cols,
                    seed |-> U32One]
          /\ gen_hist = [GenHistStart EXCEPT !.seed = U32One]
    /\ rp = [pc |-> "idle"]
    /\ host = [pc |-> "idle"]
    /\ guest = [pc |-> "idle"]
    /\ lcg = [pc |-> "idle"]
    /\ worker = <<>>

\* a loop iteration that finds unvisited neighbours, for every index in
\* [0, neighbor_count) that choice_index may return
CarveAnyChoice ==
    /\ gen.pc = "loop"
    /\ LoopGuard(gen)
    /\ NeighborCount(gen) > 0
    /\ \E idx \in 0 .. (NeighborCount(gen) - 1) :
          gen' = CarveChosen(gen, idx)
    /\ gen_hist' = [gen_hist EXCEPT
                      !.pushed = IF gen'.pc = "panic" THEN @
                                 ELSE [@ EXCEPT ![gen'.current] = @ + 1],
                      !.draws = @ + 1,
                      !.last = "carve"]
    /\ UNCHANGED <<rp, host, guest, lcg, worker>>

NextChoices == GenerateCall \/ CarveAnyChoice \/ Backtrack \/ LoopExit

\* the program runs on as long as it has a step to take
SpecChoices == InitChoices /\ [][NextChoices]_vars /\ WF_vars(NextChoices)

(***************************************************************************)
(* C33                                                                     *)
(***************************************************************************)
\* C33: for every size up to the maximum and every sequence of neighbour
\* choices the loop of the backtracker terminates, and it ends with an empty
\* stack.
C33_BacktrackerTerminates ==
    /\ (gen.pc = "call" /\ DimensionsOk(gen.rows, gen.cols))
          ~> (gen.pc = "done" /\ gen.stack_len = 0)
    /\ [](gen.pc = "done" => gen.stack_len = 0)

\* a run on the largest maze has ended after the cursor was moved back to a
\* cell that carved again
C33_Witness ==
    /\ gen.pc = "done"
    /\ gen.stack_len = 0
    /\ gen.rows = MAX_MAZE_ROWS
    /\ gen.cols = MAX_MAZE_COLS
    /\ gen_hist.pops_moved > 0
    /\ \E cell \in MazeCells(gen) : OpenWalls(gen, cell) >= 3


(***************************************************************************)
(* C34                                                                     *)
(***************************************************************************)
\* the state of a generator after k advances
RECURSIVE AdvanceTimes(_, _)
AdvanceTimes(state, k) ==
    IF k = 0 THEN state ELSE AdvanceTimes(LcgAdvance(state), k - 1)

\* the directions in which the current cell has an unvisited neighbour inside
\* the maze
OpenDirections(g) ==
    { d \in Dirs :
        LET n == Toward(g.current, d)
        IN  /\ n \in MazeCells(g)
            /\ ~g.cells[n[1]][n[2]].visited }

\* the k-th of a set of directions in the order NORTH, EAST, SOUTH, WEST
KthDirection(dirs, k) ==
    CHOOSE d \in dirs : Cardinality({ e \in dirs : e < d }) = k - 1

\* the step is a loop iteration that carves, or one that pops
IsCarve == gen.pc = "loop" /\ gen'.pc = "loop" /\ gen'.stack_len > gen.stack_len

\* C34: a carve step advances the RNG exactly once and a backtrack step not
\* at all; the index drawn selects among the unvisited neighbours of the
\* current cell taken in the order NORTH, EAST, SOUTH, WEST; and in every
\* state of the loop the number of draws made is the number of visited cells
\* minus one.
C34_OneDrawPerCarve ==
    /\ [](gen.pc \in {"loop", "done"} =>
             /\ gen_hist.draws = Cardinality(VisitedCells(gen)) - 1
             /\ gen.rng = AdvanceTimes(LcgNew(gen_hist.seed),
                                       Cardinality(VisitedCells(gen)) - 1))
    /\ [][ /\ IsCarve =>
                LET dirs == OpenDirections(gen)
                    idx == WideDiv(WideMul(LcgAdvance(gen.rng),
                                           Cardinality(dirs)))
                    dir == KthDirection(dirs, idx + 1)
                IN  /\ gen'.rng = LcgAdvance(gen.rng)
                    /\ idx < Cardinality(dirs)
                    /\ gen'.current = Toward(gen.current, dir)
                    /\ ~gen'.cells[gen.current[1]][gen.current[2]].walls[dir]
           /\ IsPop => gen'.rng = gen.rng ]_vars

\* a maze of the largest size is finished: cells were resumed after pops, a
\* cell had the choice between several neighbours, and the generator has
\* advanced once for every cell but the first
C34_Witness ==
    /\ gen.pc = "done"
    /\ gen.rows = MAX_MAZE_ROWS
    /\ gen.cols = MAX_MAZE_COLS
    /\ gen_hist.pops_moved > 0
    /\ gen_hist.draws = MAX_MAZE_ROWS * MAX_MAZE_COLS - 1
    /\ gen.rng = AdvanceTimes(LcgNew(gen_hist.seed), gen_hist.draws)
    /\ gen.rng # AdvanceTimes(LcgNew(gen_hist.seed), gen_hist.draws - 1)
    /\ gen.cells[0][0].walls[EAST]


(***************************************************************************)
(* C37                                                                     *)
(***************************************************************************)
\* C37 (as claimed): for a generated maze of rows x cols cells,
\* to_binary_grid_vec returns exactly 2 * rows + 1 rows of 2 * cols + 1
\* entries each, equal cell for cell to that part of to_binary_grid.
C37_Claimed_VecHasGridShape ==
    gen.pc = "done" =>
        LET grid_vec == ToBinaryGridVec(gen)
            grid_array == ToBinaryGrid(gen)
        IN  /\ DOMAIN grid_vec = 0 .. (2 * gen.rows)
            /\ \A i \in DOMAIN grid_vec :
                  /\ DOMAIN grid_vec[i] = 0 .. (2 * gen.cols)
                  /\ \A j \in DOMAIN grid_vec[i] :
                        grid_vec[i][j] = grid_array[i][j]


(***************************************************************************)
(* C35                                                                     *)
(***************************************************************************)
\* the pairs (cell, direction) whose neighbour in that direction is a cell of
\* the maze
InnerSides(g) ==
    { cd \in MazeCells(g) \X Dirs : Toward(cd[1], cd[2]) \in MazeCells(g) }

\* the wall flag of a cell in a direction
WallFlag(g, cell, dir) == g.cells[cell[1]][cell[2]].walls[dir]

\* the direction in which the neighbour sees the cell
Mirrored(dir) == (dir + 2) % 4

\* C35: in every state of the generation the wall flag of a cell toward an
\* adjacent cell of the maze equals the mirrored flag of that cell, so that
\* the two are cleared in the same step; a step clears at most one such pair
\* and sets none.
C35_WallsSymmetric ==
    /\ [](gen.pc \in {"loop", "done"} =>
             \A cd \in InnerSides(gen) :
                WallFlag(gen, cd[1], cd[2])
                   = WallFlag(gen, Toward(cd[1], cd[2]), Mirrored(cd[2])))
    /\ [][ (gen.pc = "loop" /\ gen'.pc \in {"loop", "done"}) =>
              LET changed == { cd \in InnerSides(gen) :
                                 WallFlag(gen', cd[1], cd[2])
                                    # WallFlag(gen, cd[1], cd[2]) }
              IN  /\ \A cd \in changed :
                        /\ WallFlag(gen, cd[1], cd[2])
                        /\ <<Toward(cd[1], cd[2]), Mirrored(cd[2])>> \in changed
                  /\ Cardinality(changed) = IF IsCarve THEN 2 ELSE 0 ]_vars

\* the generation of the largest maze is under way: a passage is open from
\* both sides, and a wall stands between two visited cells
C35_Witness ==
    /\ gen.pc = "loop"
    /\ gen.rows = MAX_MAZE_ROWS
    /\ gen.cols = MAX_MAZE_COLS
    /\ \E cd \in InnerSides(gen) :
          /\ ~WallFlag(gen, cd[1], cd[2])
          /\ ~WallFlag(gen, Toward(cd[1], cd[2]), Mirrored(cd[2]))
    /\ \E cd \in InnerSides(gen) :
          /\ WallFlag(gen, cd[1], cd[2])
          /\ WallFlag(gen, Toward(cd[1], cd[2]), Mirrored(cd[2]))
          /\ cd[1] \in VisitedCells(gen)
          /\ Toward(cd[1], cd[2]) \in VisitedCells(gen)


(***************************************************************************)
(* C36                                                                     *)
(***************************************************************************)
\* the replay has passed its check of the start cell
PastStartCheck ==
    /\ rp.pc \in {"loop", "returned"}
    /\ rp.grid[rp.start_pos][rp.start_pos] = 1

\* the next move is a direction that leads to a cell of the grid that is no
\* path
NextMoveHitsWall ==
    /\ rp.pc = "loop"
    /\ ReplayContinues(rp)
    /\ rp.moves[rp.i + 1] \in Dirs
    /\ LET target == Toward(<<rp.row, rp.col>>, rp.moves[rp.i + 1])
       IN  /\ target[1] \in 0 .. (rp.grid_size - 1)
           /\ target[2] \in 0 .. (rp.grid_size - 1)
           /\ rp.grid[target[1]][target[2]] # 1

\* C36: in every state of the replay after the start check the position is
\* inside the grid and on a path cell; a move into a wall ends the replay
\* with the verdict false and leaves the position where it was, as does
\* every other step that ends the replay.
C36_PositionOnPath ==
    /\ [](PastStartCheck =>
             /\ rp.row \in 0 .. (rp.grid_size - 1)
             /\ rp.col \in 0 .. (rp.grid_size - 1)
             /\ rp.grid[rp.row][rp.col] = 1)
    /\ [][ /\ NextMoveHitsWall =>
                /\ rp'.pc = "returned"
                /\ ~rp'.result
                /\ rp'.row = rp.row
                /\ rp'.col = rp.col
           /\ (rp.pc = "loop" /\ rp'.pc = "returned") =>
                /\ rp'.row = rp.row
                /\ rp'.col = rp.col ]_vars

\* a replay that had left the start was ended by a move into a wall inside
\* the grid
C36_Witness ==
    /\ rp.pc = "returned"
    /\ ~rp.result
    /\ ~rp.has_reached_end
    /\ rp.i >= 2
    /\ rp.i < Len(rp.moves)
    /\ <<rp.row, rp.col>> # <<rp.start_pos, rp.start_pos>>
    /\ rp.grid[rp.row][rp.col] = 1
    /\ rp.moves[rp.i + 1] \in Dirs
    /\ LET target == Toward(<<rp.row, rp.col>>, rp.moves[rp.i + 1])
       IN  /\ target[1] \in 0 .. (rp.grid_size - 1)
           /\ target[2] \in 0 .. (rp.grid_size - 1)
           /\ rp.grid[target[1]][target[2]] # 1


(***************************************************************************)
(* SpecWorker: the proving worker (worker/container_src/src/main.rs),      *)
(* prove requests handled side by side on one runtime                      *)
(***************************************************************************)
\* the requests served and the longest body, in chunks of the body stream
NumRequests == 2
MaxBody == 2

Requests == 1 .. NumRequests

\* the ways prove_handler returns
ExitPaths ==
    { "create_failed", "write_failed", "empty_body", "sync_failed",
      "bb_failed", "bb_timeout", "success" }

\* the status of the response on each of them: AppError::BadRequest is 400,
\* AppError::Internal is 500
StatusOf(exit) ==
    CASE exit = "success" -> 200
      [] exit \in {"write_failed", "empty_body"} -> 400
      [] exit \in {"create_failed", "sync_failed", "bb_failed", "bb_timeout"}
            -> 500

\* a request that has not arrived
NoRequest ==
    [ pc |-> "idle",
      body |-> 0,             \* the chunks of the request body
      file |-> "absent",      \* the witness file of the request
      written |-> 0,          \* the chunks written to it
      synced |-> FALSE,
      bb |-> "not_run",       \* the run of bb prove
      bb_saw |-> [written |-> 0, synced |-> FALSE],
      removal |-> "none",     \* the task spawned by FileGuard::drop
      exit |-> "none",
      status |-> 0 ]

\* prove_handler returns: the response is produced and _guard is dropped,
\* which spawns the task that removes the witness file
ReturnStep(q, exit) ==
    [q EXCEPT !.pc = "returned",
              !.exit = exit,
              !.status = StatusOf(exit),
              !.removal = "scheduled"]

\* request id, witness path and guard
ArriveStep(q, body) == [q EXCEPT !.pc = "guarded", !.body = body]

\* fs::File::create(&witness_path)
CreateStep(q, ok) ==
    IF ok THEN [q EXCEPT !.pc = "created", !.file = "exists"]
    ELSE ReturnStep(q, "create_failed")

\* variant: an empty body is not rejected
CopyStep_NoEmptyCheck(q, ok) ==
    IF ~ok THEN ReturnStep(q, "write_failed")
    ELSE IF q.written < q.body THEN [q EXCEPT !.written = @ + 1]
    ELSE [q EXCEPT !.pc = "copied"]

\* tokio::io::copy, one chunk of the stream at a time, and the test of
\* bytes_written at its end
CopyStep(q, ok) ==
    IF ~ok THEN ReturnStep(q, "write_failed")
    ELSE IF q.written < q.body THEN [q EXCEPT !.written = @ + 1]
    ELSE IF q.written = 0 THEN ReturnStep(q, "empty_body")
    ELSE [q EXCEPT !.pc = "copied"]

\* file.sync_all() and drop(file)
SyncStep(q, ok) ==
    IF ok THEN [q EXCEPT !.pc = "synced", !.synced = TRUE]
    ELSE ReturnStep(q, "sync_failed")

\* execute_prove: bb prove is started on the witness file
BbStartStep(q) ==
    [q EXCEPT !.pc = "proving",
              !.bb = "running",
              !.bb_saw = [written |-> q.written, synced |-> q.synced]]

\* execute_prove: bb ends with success or with a failure, or the timeout
\* expires, which leaves the child running
BbEndStep(q, outcome) ==
    ReturnStep([q EXCEPT !.bb = IF outcome = "bb_timeout" THEN "abandoned"
                                ELSE "ended"],
               outcome)

\* the spawned task: fs::remove_file(&path), its result ignored
RemovalStep(q) == [q EXCEPT !.removal = "done", !.file = "absent"]

InitWorker ==
    /\ worker = [runtime |-> "running", req |-> [r \in Requests |-> NoRequest]]
    /\ gen = [pc |-> "idle"]
    /\ gen_hist = GenHistStart
    /\ rp = [pc |-> "idle"]
    /\ host = [pc |-> "idle"]
    /\ guest = [pc |-> "idle"]
    /\ lcg = [pc |-> "idle"]

\* a request arrives while the server accepts requests
Arrive(r) ==
    /\ worker.runtime = "running"
    /\ worker.req[r].pc = "idle"
    /\ \E body \in 0 .. MaxBody :
          worker' = [worker EXCEPT !.req[r] = ArriveStep(@, body)]
    /\ UNCHANGED <<gen, gen_hist, rp, host, guest, lcg>>

CreateFile(r) ==
    /\ worker.req[r].pc = "guarded"
    /\ \E ok \in BOOLEAN :
          worker' = [worker EXCEPT !.req[r] = CreateStep(@, ok)]
    /\ UNCHANGED <<gen, gen_hist, rp, host, guest, lcg>>

CopyBody(r) ==
    /\ worker.req[r].pc = "created"
    /\ \E ok \in BOOLEAN :
          worker' = [worker EXCEPT !.req[r] = CopyStep(@, ok)]
    /\ UNCHANGED <<gen, gen_hist, rp, host, guest, lcg>>

SyncFile(r) ==
    /\ worker.req[r].pc = "copied"
    /\ \E ok \in BOOLEAN :
          worker' = [worker EXCEPT !.req[r] = SyncStep(@, ok)]
    /\ UNCHANGED <<gen, gen_hist, rp, host, guest, lcg>>

BbStart(r) ==
    /\ worker.req[r].pc = "synced"
    /\ worker' = [worker EXCEPT !.req[r] = BbStartStep(@)]
    /\ UNCHANGED <<gen, gen_hist, rp, host, guest, lcg>>

BbEnd(r) ==
    /\ worker.req[r].pc = "proving"
    /\ \E outcome \in {"success", "bb_failed", "bb_timeout"} :
          worker' = [worker EXCEPT !.req[r] = BbEndStep(@, outcome)]
    /\ UNCHANGED <<gen, gen_hist, rp, host, guest, lcg>>

\* the runtime runs the removal task of a request
RemovalRun(r) ==
    /\ worker.runtime = "running"
    /\ worker.req[r].removal = "scheduled"
    /\ worker' = [worker EXCEPT !.req[r] = RemovalStep(@)]
    /\ UNCHANGED <<gen, gen_hist, rp, host, guest, lcg>>

\* graceful shutdown: no request is in flight, axum::serve returns, main
\* returns and the runtime is dropped; a spawned task that has not run yet
\* is dropped with it
Shutdown ==
    /\ worker.runtime = "running"
    /\ \A r \in Requests : worker.req[r].pc \in {"idle", "returned"}
    /\ worker' =
          [ runtime |-> "stopped",
            req |-> [r \in Requests |->
                       IF worker.req[r].removal = "scheduled"
                       THEN [worker.req[r] EXCEPT !.removal = "dropped"]
                       ELSE worker.req[r]] ]
    /\ UNCHANGED <<gen, gen_hist, rp, host, guest, lcg>>

\* a step of one handler
HandlerStep(r) ==
    \/ CreateFile(r)
    \/ CopyBody(r)
    \/ SyncFile(r)
    \/ BbStart(r)
    \/ BbEnd(r)

NextWorker ==
    \/ \E r \in Requests : Arrive(r)
    \/ \E r \in Requests : HandlerStep(r)
    \/ \E r \in Requests : RemovalRun(r)
    \/ Shutdown

\* a handler that can take a step takes it, and a running runtime runs the
\* tasks spawned on it
SpecWorker ==
    /\ InitWorker
    /\ [][NextWorker]_vars
    /\ \A r \in Requests : WF_vars(HandlerStep(r)) /\ WF_vars(RemovalRun(r))


(***************************************************************************)
(* C38: the witness file and the end of its request                        *)
(***************************************************************************)
\* C38 as stated: the removal of the witness file is scheduled on every way
\* out of prove_handler, so that no witness file outlives its request: once
\* the handler of a request has returned, its witness file is gone at some
\* later time.
C38_Claimed_NoFileOutlivesRequest ==
    \A r \in Requests :
        (worker.req[r].pc = "returned") ~> (worker.req[r].file = "absent")

(***************************************************************************)
(* C39: empty bodies and the start of bb prove                             *)
(***************************************************************************)
\* C39 as stated: a prove request with an empty body is answered with 400
\* Bad Request.
C39_Claimed_EmptyBodyIs400 ==
    \A r \in Requests :
        (worker.req[r].pc = "returned" /\ worker.req[r].body = 0)
            => worker.req[r].status = 400

\* C39, amended: a prove request with an empty body is answered with 400 Bad
\* Request unless its witness file could not be created, which is answered
\* with 500; bb prove is never started for it; and bb prove is started only
\* once the whole body has been written to the witness file and the file has
\* been synced.
C39_EmptyBodyRejected ==
    \A r \in Requests :
        LET q == worker.req[r] IN
        /\ (q.pc = "returned" /\ q.body = 0)
              => /\ q.exit \in {"create_failed", "write_failed", "empty_body"}
                 /\ q.status = IF q.exit = "create_failed" THEN 500 ELSE 400
        /\ q.body = 0 => q.bb = "not_run"
        /\ q.bb # "not_run"
              => /\ q.body > 0
                 /\ q.bb_saw = [written |-> q.body, synced |-> TRUE]

\* an empty body was rejected by the test of bytes_written, and bb has run on
\* the longest body
C39_Witness ==
    /\ \E r \in Requests :
          /\ worker.req[r].exit = "empty_body"
          /\ worker.req[r].status = 400
    /\ \E r \in Requests :
          /\ worker.req[r].bb = "ended"
          /\ worker.req[r].body = MaxBody
          /\ worker.req[r].status = 200

=============================================================================
